---- MODULE Spec2Model ----
(***************************************************************************)
(* knex-types: updateTypes(db, options) reads the PostgreSQL catalog       *)
(* through a Knex handle and writes TypeScript declarations to a stream.   *)
(*                                                                         *)
(* Text is modelled as a sequence of string fragments.  A fragment is one  *)
(* character wherever the program looks at characters (schema entries,     *)
(* udt names, identifiers) and a whole literal of the program elsewhere.   *)
(* Concatenation of text is \o.  Each output.write(...) call appends one   *)
(* record to the variable output; the record names the template literal    *)
(* of the call and carries the interpolated values.                        *)
(***************************************************************************)
EXTENDS Integers, Sequences, FiniteSets, TLC

\* ------------------------------------------------------------------ bounds
\* longest array given as the schema option
MaxSchemaLen == 2

\* ------------------------------------------------------------- JS values
\* null / undefined
Null == <<"<null>">>
\* the completion of a call that threw
Thrown == <<"<thrown>">>
\* a caller-supplied value that is not a string (a number, say) in a place
\* where the declared type is string
NonString == <<"<non-string>">>
\* String(f) of a function value that is interpolated without being called
FnSource == <<"<function source>">>
\* an option that the caller did not give
Absent == [k |-> "absent"]

\* a ?? b
Coalesce(a, b) == IF a = Null THEN b ELSE a

\* --------------------------------------------------------- text helpers
Str(s) == <<s>>

Public == <<"p", "u", "b", "l", "i", "c">>
Log == <<"l", "o", "g">>
Secret == <<"s", "e", "c">>
Msg == <<"m", "s", "g">>
Usr == <<"u", "s", "r">>
Login == <<"l", "o", "g", "i", "n">>
Id == <<"i", "d">>
Notes == <<"n", "o", "t", "e", "s">>
Bio == <<"b", "i", "o">>
Tags == <<"t", "a", "g", "s">>
Text == <<"t", "e", "x", "t">>
UText == <<"_", "t", "e", "x", "t">>
Int4 == <<"i", "n", "t", "4">>
Star == <<"*">>
Dot == <<".">>
Bang == <<"!">>

\* a prefix test that looks at the first character only
startsWith_FirstCharOnly(s, p) ==
  p = <<>> \/ (Len(s) > 0 /\ s[1] = p[1])

\* s.startsWith(p)
startsWith(s, p) ==
  /\ Len(s) >= Len(p)
  /\ SubSeq(s, 1, Len(p)) = p

\* s.substring(1)
substring1(s) == IF Len(s) = 0 THEN s ELSE SubSeq(s, 2, Len(s))

Whitespace == {" ", "\t", "\n"}

RECURSIVE trimStart(_)
trimStart(s) ==
  IF Len(s) > 0 /\ Head(s) \in Whitespace THEN trimStart(Tail(s)) ELSE s

RECURSIVE trimEnd(_)
trimEnd(s) ==
  IF Len(s) > 0 /\ s[Len(s)] \in Whitespace
  THEN trimEnd(SubSeq(s, 1, Len(s) - 1))
  ELSE s

\* s.trim()
trim(s) == trimEnd(trimStart(s))

\* s.split(","): the pieces between the commas, empty pieces included
RECURSIVE splitFrom(_, _, _)
splitFrom(s, i, cur) ==
  IF i > Len(s) THEN <<cur>>
  ELSE IF s[i] = "," THEN <<cur>> \o splitFrom(s, i + 1, <<>>)
  ELSE splitFrom(s, i + 1, Append(cur, s[i]))

split(s) == splitFrom(s, 1, <<>>)

\* xs.map((x) => x.trim())
TrimAll(xs) == [k \in 1..Len(xs) |-> trim(xs[k])]

\* xs.includes(v)
Includes(xs, v) == \E i \in 1..Len(xs) : xs[i] = v

\* ---------------------------------------------- lodash camelCase/upperFirst
\* The model's identifiers are made of lower-case letters, digits, capitals
\* that start a word, and separators; on that alphabet lodash's words() cuts
\* at every separator, between a letter and a digit, and before a capital
\* that follows a lower-case letter.
LowerLetters ==
  <<"a", "b", "c", "d", "e", "f", "g", "h", "i", "j", "k", "l", "m",
    "n", "o", "p", "q", "r", "s", "t", "u", "v", "w", "x", "y", "z">>
UpperLetters ==
  <<"A", "B", "C", "D", "E", "F", "G", "H", "I", "J", "K", "L", "M",
    "N", "O", "P", "Q", "R", "S", "T", "U", "V", "W", "X", "Y", "Z">>
Digits == {"0", "1", "2", "3", "4", "5", "6", "7", "8", "9"}

isLower(c) == \E k \in 1..26 : LowerLetters[k] = c
isUpper(c) == \E k \in 1..26 : UpperLetters[k] = c
isDigit(c) == c \in Digits
isAlnum(c) == isLower(c) \/ isUpper(c) \/ isDigit(c)

toUpper(c) ==
  IF isLower(c) THEN UpperLetters[CHOOSE k \in 1..26 : LowerLetters[k] = c]
  ELSE c
toLower(c) ==
  IF isUpper(c) THEN LowerLetters[CHOOSE k \in 1..26 : UpperLetters[k] = c]
  ELSE c

\* is there a word boundary between the adjacent characters p and c
wordBreak(p, c) ==
  \/ isLower(p) /\ isUpper(c)
  \/ isDigit(p) /\ ~isDigit(c)
  \/ ~isDigit(p) /\ isDigit(c)

RECURSIVE wordsFrom(_, _, _)
wordsFrom(s, i, cur) ==
  LET flush == IF cur = <<>> THEN <<>> ELSE <<cur>> IN
  IF i > Len(s) THEN flush
  ELSE IF ~isAlnum(s[i]) THEN flush \o wordsFrom(s, i + 1, <<>>)
  ELSE IF cur # <<>> /\ wordBreak(cur[Len(cur)], s[i])
       THEN flush \o wordsFrom(s, i + 1, <<s[i]>>)
  ELSE wordsFrom(s, i + 1, Append(cur, s[i]))

words(s) == wordsFrom(s, 1, <<>>)

\* capitalize(word.toLowerCase())
capitalize(w) ==
  [k \in 1..Len(w) |-> IF k = 1 THEN toUpper(w[k]) ELSE toLower(w[k])]

RECURSIVE joinCapitalized(_, _)
joinCapitalized(ws, k) ==
  IF k > Len(ws) THEN <<>>
  ELSE capitalize(ws[k]) \o joinCapitalized(ws, k + 1)

\* upperFirst(camelCase(s))
PascalCase(s) == joinCapitalized(words(s), 1)

\* ------------------------------------------------- getType's mapping table
Bool == <<"b", "o", "o", "l">>
Json == <<"j", "s", "o", "n">>
Jsonb == <<"j", "s", "o", "n", "b">>
Bytea == <<"b", "y", "t", "e", "a">>
Interval == <<"i", "n", "t", "e", "r", "v", "a", "l">>
StringTags ==
  {
    <<"t", "e", "x", "t">>,
    <<"c", "i", "t", "e", "x", "t">>,
    <<"m", "o", "n", "e", "y">>,
    <<"n", "u", "m", "e", "r", "i", "c">>,
    <<"i", "n", "t", "8">>,
    <<"c", "h", "a", "r">>,
    <<"c", "h", "a", "r", "a", "c", "t", "e", "r">>,
    <<"b", "p", "c", "h", "a", "r">>,
    <<"v", "a", "r", "c", "h", "a", "r">>,
    <<"t", "i", "m", "e">>,
    <<"t", "s", "q", "u", "e", "r", "y">>,
    <<"t", "s", "v", "e", "c", "t", "o", "r">>,
    <<"u", "u", "i", "d">>,
    <<"x", "m", "l">>,
    <<"c", "i", "d", "r">>,
    <<"i", "n", "e", "t">>,
    <<"m", "a", "c", "a", "d", "d", "r">> }
NumberTags ==
  {
    <<"s", "m", "a", "l", "l", "i", "n", "t">>,
    <<"i", "n", "t", "e", "g", "e", "r">>,
    <<"i", "n", "t">>,
    <<"i", "n", "t", "4">>,
    <<"r", "e", "a", "l">>,
    <<"f", "l", "o", "a", "t">>,
    <<"f", "l", "o", "a", "t", "4">>,
    <<"f", "l", "o", "a", "t", "8">> }
DateTags ==
  {
    <<"d", "a", "t", "e">>,
    <<"t", "i", "m", "e", "s", "t", "a", "m", "p">>,
    <<"t", "i", "m", "e", "s", "t", "a", "m", "p", "t", "z">> }

ARRAY == Str("ARRAY")

\* the storage tag of an array column taken as it is
Udt_NoStrip(x) == x.udt

\* the storage tag that is looked up: udt, without its first character for
\* an array column
Udt(x) == IF x.type = ARRAY THEN substring1(x.udt) ELSE x.udt

\* customTypes.get(udt)
MapGet(m, key) == IF key \in DOMAIN m THEN m[key] ELSE Null

getType(x, customTypes) ==
  LET udt == Udt(x) IN
  IF udt = Bool THEN Str("boolean")
  ELSE IF udt \in StringTags THEN Str("string")
  ELSE IF udt \in NumberTags THEN Str("number")
  ELSE IF udt \in DateTags THEN Str("Date")
  ELSE IF udt \in {Json, Jsonb} THEN
    IF x.default # Null /\ x.default # <<>>
         /\ startsWith(x.default, <<"'", "{">>)
      THEN Str("Record<string, unknown>")
    ELSE IF x.default # Null /\ x.default # <<>>
         /\ startsWith(x.default, <<"'", "[">>)
      THEN Str("unknown[]")
    ELSE Str("unknown")
  ELSE IF udt = Bytea THEN Str("Buffer")
  ELSE IF udt = Interval THEN Str("PostgresInterval")
  ELSE Coalesce(MapGet(customTypes, udt), Str("unknown"))

\* /^[a-zA-Z$_][a-zA-Z$_0-9]*$/.test(name) ? name : JSON.stringify(name)
isIdentStart(c) == isLower(c) \/ isUpper(c) \/ c \in {"$", "_"}
isIdentPart(c) == isIdentStart(c) \/ isDigit(c)
\* the test without its rule for the first character
isIdentifier_AnyFirst(name) ==
  /\ Len(name) > 0
  /\ \A k \in 1..Len(name) : isIdentPart(name[k])

isIdentifier(name) ==
  /\ Len(name) > 0
  /\ isIdentStart(name[1])
  /\ \A k \in 2..Len(name) : isIdentPart(name[k])

\* JSON.stringify of a string: quotes around it, quote and backslash escaped
RECURSIVE jsonEscape(_, _)
jsonEscape(s, k) ==
  IF k > Len(s) THEN <<>>
  ELSE (IF s[k] \in {"\"", "\\"} THEN <<"\\", s[k]>> ELSE <<s[k]>>)
       \o jsonEscape(s, k + 1)

sanitize(name) ==
  IF isIdentifier(name) THEN name
  ELSE <<"\"">> \o jsonEscape(name, 1) \o <<"\"">>

\* ------------------------------------------------------ override entries
\* An entry of overrides or typeOverrides is a literal string or a function.
\* The functions a caller may supply are represented by a few behaviours:
\*   "const"  returns the string v
\*   "null"   returns null
\*   "throw"  throws
\*   "keep"   returns its last argument (defaultValue / valueSoFar / type)
\*   "append" returns its last argument followed by v
\*   "desc"   returns a string built from the descriptor: table, ".", column, v
\*   "table"  (name functions) returns v followed by PascalCase(x.table) when
\*            the category is "table" and its last argument otherwise
Lit(v) == [k |-> "lit", v |-> v]
Fn(f, v) == [k |-> "fn", f |-> f, v |-> v]

isFunction(value) == value.k = "fn"

\* `${v}` of a value that may be null
NullText == <<"n", "u", "l", "l">>
ToText(v) == IF v = Null THEN NullText ELSE v

\* override(x, ..., last): the completion of calling the function entry e
Call(e, x, last) ==
  CASE e.f = "const" -> e.v
    [] e.f = "null" -> Null
    [] e.f = "throw" -> Thrown
    [] e.f = "keep" -> last
    [] e.f = "append" -> ToText(last) \o e.v
    [] e.f = "desc" -> x.table \o Dot \o x.column \o e.v

\* isFunction(e) ? e(x, ..., last) : e
Apply(e, x, last) == IF isFunction(e) THEN Call(e, x, last) ELSE e.v

\* override(x, category, last): the completion of calling the name function e
CallName(e, x, category, last) ==
  IF e.f = "table"
  THEN IF category = "table" THEN e.v \o PascalCase(x.table) ELSE last
  ELSE Call(e, x, last)

\* isFunction(e) ? e(x, category, last) : e
ApplyName(e, x, category, last) ==
  IF isFunction(e) THEN CallName(e, x, category, last) ELSE e.v

\* the value of an entry that is interpolated without being called
Interpolate(e) == IF isFunction(e) THEN FnSource ELSE e.v

\* a lookup that ignores the case of the key
Lookup_IgnoreCase(m, key) ==
  LET Lower(s) == [j \in 1..Len(s) |-> toLower(s[j])]
      hits == { k \in DOMAIN m : Lower(k) = Lower(key) }
  IN IF hits = {} THEN Null ELSE Interpolate(m[CHOOSE k \in hits : TRUE])

\* overrides[key]
Lookup(m, key) == IF key \in DOMAIN m THEN Interpolate(m[key]) ELSE Null

\* x[category]
Field(x, category) ==
  CASE category = "table" -> x.table
    [] category = "schema" -> x.schema
    [] category = "column" -> x.column

\* the pair written column first
TableColumnKey_ColumnFirst(x) == x.column \o Dot \o x.table

\* `${x.table}.${x.column}`
TableColumnKey(x) == x.table \o Dot \o x.column

\* overrideName whose "*" entry is consulted only when no specific key gave a
\* name
overrideName_StarOnlyUnmatched(x, category, overrides) ==
  LET defaultValue == Field(x, category)
      specific ==
        IF category = "column"
        THEN IF TableColumnKey(x) \in DOMAIN overrides
             THEN ApplyName(overrides[TableColumnKey(x)], x, category,
                            defaultValue)
             ELSE IF x.column \in DOMAIN overrides
             THEN ApplyName(overrides[x.column], x, category, defaultValue)
             ELSE Null
        ELSE IF Field(x, category) \in DOMAIN overrides
             THEN ApplyName(overrides[Field(x, category)], x, category,
                            defaultValue)
             ELSE Null
  IN IF specific = Thrown THEN Thrown
     ELSE IF Star \in DOMAIN overrides /\ specific = Null
     THEN ApplyName(overrides[Star], x, category, specific)
     ELSE specific

\* overrideName(x, category, overrides): a string, Null, or Thrown
overrideName(x, category, overrides) ==
  LET defaultValue == Field(x, category)
      specific ==
        IF category = "column"
        THEN IF TableColumnKey(x) \in DOMAIN overrides
             THEN ApplyName(overrides[TableColumnKey(x)], x, category,
                            defaultValue)
             ELSE IF x.column \in DOMAIN overrides
             THEN ApplyName(overrides[x.column], x, category, defaultValue)
             ELSE Null
        ELSE IF Field(x, category) \in DOMAIN overrides
             THEN ApplyName(overrides[Field(x, category)], x, category,
                            defaultValue)
             ELSE Null
  IN IF specific = Thrown THEN Thrown
     ELSE IF Star \in DOMAIN overrides
     THEN ApplyName(overrides[Star], x, category, specific)
     ELSE specific

\* a switch that is off unless it is given as true
FlagOn_DefaultFalse(flag) == flag = "true"

\* options.flag ?? true
FlagOn(flag) == flag # "false"

\* options.typeOverrides ?? {}
TypeOverridesOf(options) == options.typeOverrides

\* overrideType with the column-name tier tried before the table.column tier
overrideType_ColumnFirst(x, options) ==
  LET typeOverrides == TypeOverridesOf(options)
      udt == Udt(x)
  IN IF FlagOn(options.overrideColumnTypes)
        /\ x.column \in DOMAIN typeOverrides
     THEN Apply(typeOverrides[x.column], x, Null)
     ELSE IF FlagOn(options.overrideTableColumnTypes)
        /\ TableColumnKey(x) \in DOMAIN typeOverrides
     THEN Apply(typeOverrides[TableColumnKey(x)], x, Null)
     ELSE IF FlagOn(options.overrideDefaultTypes)
        /\ udt \in DOMAIN typeOverrides
     THEN Apply(typeOverrides[udt], x, Null)
     ELSE Null

\* overrideType(x, options): a string, Null, or Thrown
overrideType(x, options) ==
  LET typeOverrides == TypeOverridesOf(options)
      udt == Udt(x)
  IN IF FlagOn(options.overrideTableColumnTypes)
        /\ TableColumnKey(x) \in DOMAIN typeOverrides
     THEN Apply(typeOverrides[TableColumnKey(x)], x, Null)
     ELSE IF FlagOn(options.overrideColumnTypes)
        /\ x.column \in DOMAIN typeOverrides
     THEN Apply(typeOverrides[x.column], x, Null)
     ELSE IF FlagOn(options.overrideDefaultTypes)
        /\ udt \in DOMAIN typeOverrides
     THEN Apply(typeOverrides[udt], x, Null)
     ELSE Null

\* typePostProcessor that honours only a function under "*"
typePostProcessor_FunctionOnly(x, type, options) ==
  LET typeOverrides == TypeOverridesOf(options) IN
  IF Star \in DOMAIN typeOverrides /\ isFunction(typeOverrides[Star])
  THEN Call(typeOverrides[Star], x, type)
  ELSE type

\* typePostProcessor(x, type, options): a string, Null, or Thrown
typePostProcessor(x, type, options) ==
  LET typeOverrides == TypeOverridesOf(options) IN
  IF Star \in DOMAIN typeOverrides
  THEN Apply(typeOverrides[Star], x, type)
  ELSE type

\* AssembledType with " | null" appended before "[]"
AssembledType_NullFirst(x, options, enumsMap) ==
  LET o == overrideType(x, options) IN
  IF o = Thrown THEN Thrown
  ELSE Coalesce(o, getType(x, enumsMap))
         \o (IF x.nullable THEN Str(" | null") ELSE <<>>)
         \o (IF x.type = ARRAY THEN Str("[]") ELSE <<>>)

\* lines 1147-1150: the type before post-processing; Thrown if the tier
\* override threw
AssembledType(x, options, enumsMap) ==
  LET o == overrideType(x, options) IN
  IF o = Thrown THEN Thrown
  ELSE Coalesce(o, getType(x, enumsMap))
         \o (IF x.type = ARRAY THEN Str("[]") ELSE <<>>)
         \o (IF x.nullable THEN Str(" | null") ELSE <<>>)

\* lines 1147-1153: the type written for the column; Thrown if a function
\* threw
ColumnType(x, options, enumsMap) ==
  LET a == AssembledType(x, options, enumsMap) IN
  IF a = Thrown THEN Thrown ELSE typePostProcessor(x, a, options)

\* ColumnName with the table-like default transform
ColumnName_PascalDefault(x, overrides) ==
  LET n == overrideName(x, "column", overrides) IN
  IF n = Thrown THEN Thrown ELSE Coalesce(n, PascalCase(x.column))

\* line 1145
ColumnName(x, overrides) ==
  LET n == overrideName(x, "column", overrides) IN
  IF n = Thrown THEN Thrown ELSE Coalesce(n, x.column)

\* lines 1133-1141 (and 1091-1096, 1112-1117): `${schemaName}${tableName}`;
\* Thrown if a function threw
TypeName(x, overrides) ==
  LET t == overrideName(x, "table", overrides)
      s == overrideName(x, "schema", overrides)
      schemaName == IF x.schema # Public THEN PascalCase(x.schema) ELSE <<>>
  IN IF t = Thrown \/ s = Thrown THEN Thrown
     ELSE Coalesce(s, schemaName) \o Coalesce(t, PascalCase(x.table))

\* the runtime string without the schema
RuntimeName_Bare(x) == x.table

\* lines 1098-1099: `${schema}${x.table}`
RuntimeName(x) ==
  (IF x.schema # Public THEN x.schema \o Dot ELSE <<>>) \o x.table

\* ------------------------------------------------------------ the catalog
Prov == <<"p", "r", "o", "v">>
Provs == <<"p", "r", "o", "v", "s">>
Idp == <<"i", "d", "_", "p">>
Mood == <<"m", "o", "o", "d">>
NextVal == Str("nextval('seq'::regclass)")

Row(schema, table, column, nullable, default, type, udt) ==
  [schema |-> schema, table |-> table, column |-> column,
   nullable |-> nullable, default |-> default, type |-> type, udt |-> udt]

\* information_schema.columns, in the order of the query's ORDER BY
\* (table_schema, table_name, ordinal_position)
CatalogColumns ==
  << Row(Log, Msg, Id, FALSE, NextVal, Str("integer"), Int4),
     Row(Log, Msg, Notes, TRUE, Null, Str("text"), Text),
     Row(Public, Login, Id, FALSE, NextVal, Str("integer"), Int4),
     Row(Public, Usr, Notes, FALSE, Null, Str("text"), Text),
     Row(Public, Usr, Bio, TRUE, Null, Str("text"), Text),
     Row(Public, Usr, Tags, TRUE, Null, ARRAY, UText),
     Row(Public, Usr, Prov, FALSE, Null, Str("USER-DEFINED"), Idp),
     Row(Public, Usr, Provs, TRUE, Null, ARRAY, <<"_">> \o Idp),
     Row(Secret, Msg, Notes, TRUE, Null, Str("text"), Text) >>

\* pg_type joined with pg_enum, ordered by typname, enumsortorder
CatalogEnums ==
  << [key |-> Idp, value |-> <<"g", "o">>],
     [key |-> Idp, value |-> <<"l", "i">>],
     [key |-> Mood, value |-> <<"o", "k">>],
     [key |-> Mood, value |-> <<"a", ".", "b", "-", "c">>] >>

\* the database of the test setup, reduced
MainCatalog == [columns |-> CatalogColumns, enums |-> CatalogEnums]

\* a data_type other than ARRAY
DataType == Str("<data type>")
Int2 == <<"i", "n", "t", "2">>
Hstore == <<"h", "s", "t", "o", "r", "e">>

\* the storage tags tried: those of the mapping table, int2, a tag that is
\* unknown and the key of an enum
TagsTried ==
  {Bool, Bytea, Interval, Int2, Hstore, Idp}
    \cup StringTags \cup NumberTags \cup DateTags

\* a database whose only table, public.usr, has the single column id of
\* storage tag tag, or of an array of it
TagCatalog(tag, isArray) ==
  [columns |->
     << IF isArray
        THEN Row(Public, Usr, Id, TRUE, Null, ARRAY, <<"_">> \o tag)
        ELSE Row(Public, Usr, Id, FALSE, Null, DataType, tag) >>,
   enums |-> CatalogEnums]

TagCatalogs == { TagCatalog(tag, a) : tag \in TagsTried, a \in BOOLEAN }

\* column defaults of json columns: '{}'::jsonb, '[]'::jsonb, '"a"'::jsonb,
\* NULL::jsonb
ObjectDefault == <<"'", "{", "}", "'", "::jsonb">>
ArrayDefault == <<"'", "[", "]", "'", "::jsonb">>
StringDefault == <<"'", "\"", "a", "\"", "'", "::jsonb">>
NullDefault == <<"N", "U", "L", "L", "::jsonb">>

\* a database whose only table, public.usr, has one column of storage tag
\* tag (json or jsonb), or of an array of it, for each default tried
JsonCatalog(tag, isArray) ==
  LET type == IF isArray THEN ARRAY ELSE DataType
      udt == IF isArray THEN <<"_">> \o tag ELSE tag
  IN [columns |->
        << Row(Public, Usr, Id, FALSE, ObjectDefault, type, udt),
           Row(Public, Usr, Tags, FALSE, ArrayDefault, type, udt),
           Row(Public, Usr, Notes, TRUE, Null, type, udt),
           Row(Public, Usr, Bio, TRUE, StringDefault, type, udt),
           Row(Public, Usr, Prov, TRUE, NullDefault, type, udt) >>,
      enums |-> CatalogEnums]

\* column names that are not identifiers, and two that are
DisplayName == <<"a", " ", "b">>
OneX == <<"1", "x">>
WithQuote == <<"a", "\"", "b">>
WithBackslash == <<"a", "\\", "b">>
DollarX == <<"$", "x">>
UnderY1 == <<"_", "y", "1">>

\* a database whose only table, public.usr, has text columns of those names
QuotingCatalog ==
  [columns |->
     << Row(Public, Usr, DisplayName, TRUE, Null, Str("text"), Text),
        Row(Public, Usr, OneX, TRUE, Null, Str("text"), Text),
        Row(Public, Usr, WithQuote, TRUE, Null, Str("text"), Text),
        Row(Public, Usr, WithBackslash, FALSE, Null, Str("text"), Text),
        Row(Public, Usr, DollarX, FALSE, Null, Str("text"), Text),
        Row(Public, Usr, UnderY1, FALSE, Null, Str("text"), Text) >>,
   enums |-> CatalogEnums]

JsonCatalogs == { JsonCatalog(tag, a) : tag \in {Json, Jsonb}, a \in BOOLEAN }

\* the select without its whereNotIn("table_name", exclude)
ColumnQuery_NoTableFilter(catalog, includeSchemas, excludeSchemas, exclude) ==
  SelectSeq(catalog,
            LAMBDA r : /\ Includes(includeSchemas, r.schema)
                       /\ ~Includes(excludeSchemas, r.schema))

\* the select of lines 1055-1072 on the catalog
ColumnQuery(catalog, includeSchemas, excludeSchemas, exclude) ==
  SelectSeq(catalog,
            LAMBDA r : /\ Includes(includeSchemas, r.schema)
                       /\ ~Includes(excludeSchemas, r.schema)
                       /\ ~Includes(exclude, r.table))

\* ------------------------------------------------------------ the options
StringOpt(v) == [k |-> "string", v |-> v]
ArrayOpt(v) == [k |-> "array", v |-> v]
\* a truthy value that is not a string
OtherOpt == [k |-> "other"]

\* typeof o === "string" ? o.split(",").map(x => x.trim()) : o  ?? dflt
ListOption(o, dflt) ==
  IF o.k = "string" THEN TrimAll(split(o.v))
  ELSE IF o.k = "array" THEN o.v
  ELSE dflt

\* lines 996-998
SchemaList(options) == ListOption(options.schema, <<Public>>)

\* lines 1001-1005: acc[+s.startsWith("!")].push(s)
IncludeSchemas(schema) == SelectSeq(schema, LAMBDA e : ~startsWith(e, Bang))
ExcludeSchemas(schema) == SelectSeq(schema, LAMBDA e : startsWith(e, Bang))

\* s.startsWith is not a function when the entry s is not a string
ParseThrows(options) == Includes(SchemaList(options), NonString)

\* lines 1008-1011
ExcludeList(options) == ListOption(options.exclude, <<>>)

\* a test that takes the empty string for a text to write
Truthy_EmptyToo(o) == o.k \in {"string", "other"}

\* if (options.prefix) / if (options.suffix)
Truthy(o) == (o.k = "string" /\ o.v # <<>>) \/ o.k = "other"

\* options.tablesEnumName || "Table"
NameOr(o, dflt) == IF o.k = "string" /\ o.v # <<>> THEN o.v ELSE dflt

\* --------------------------------------------------------------- writes
Banner == << [w |-> "banner1"], [w |-> "banner2"] >>
WText(v) == [w |-> "text", s |-> v]
WNewlines(n) == [w |-> "newlines", n |-> n]
WEnumOpen(name) == [w |-> "enumOpen", name |-> name]
WEnumMember(key, value) == [w |-> "enumMember", key |-> key, value |-> value]
WClose == [w |-> "close"]
WTablesEnumOpen(name) == [w |-> "tablesEnumOpen", name |-> name]
WTableMember(key, value) == [w |-> "tableMember", key |-> key, value |-> value]
WTablesTypeOpen(name) == [w |-> "tablesTypeOpen", name |-> name]
WTableEntry(value, key) == [w |-> "tableEntry", value |-> value, key |-> key]
WTypeOpen(name) == [w |-> "typeOpen", name |-> name]
WColumn(key, type) == [w |-> "column", key |-> key, type |-> type]

\* --------------------------------------------------------------- state
VARIABLES
  options,        \* the options argument
  catalog,        \* the database: its columns and its enum labels
  pc,             \* where updateTypes is
  output,         \* the output.write calls of this invocation, in order
  ended,          \* number of output.end() calls of this invocation
  destroyed,      \* number of db.destroy() calls of this invocation
  queries,        \* the catalog queries this invocation issued, in order
  includeSchemas, excludeSchemas, exclude,
  enums,          \* result of the enum query
  enumsMap,
  columns,        \* result of the column query
  tables,         \* unique (table, schema) pairs
  i,              \* index of the running loop
  thrown,         \* the exception in flight
  result,         \* the promise returned to the caller
  plan,           \* what the caller does once the first invocation returned
  invocation,     \* 1 or 2: which call of updateTypes is running
  firstRun,       \* what the first invocation left, once the second began
  streamEnded,    \* the stream given to this invocation has been ended
  handleDestroyed \* the handle given to this invocation has been destroyed

vars == << options, catalog, pc, output, ended, destroyed, queries,
           includeSchemas, excludeSchemas, exclude, enums, enumsMap, columns,
           tables, i, thrown, result, plan, invocation, firstRun, streamEnded,
           handleDestroyed >>

NoError == "none"
Pending == [state |-> "pending"]
Fulfilled == [state |-> "fulfilled"]
Rejected(e) == [state |-> "rejected", reason |-> e]

\* ------------------------------------------------------- the inputs tried
MsgNotes == Msg \o Dot \o Notes
Body == <<"b", "o", "d", "y">>
Remarks == <<"r", "e", "m", "a", "r", "k", "s">>

DefaultOptions ==
  [overrides |-> <<>>, typeOverrides |-> <<>>,
   overrideTableColumnTypes |-> "absent", overrideColumnTypes |-> "absent",
   overrideDefaultTypes |-> "absent",
   prefix |-> Absent, suffix |-> Absent, schema |-> Absent,
   exclude |-> Absent, tablesEnumName |-> Absent, tablesTypeName |-> Absent]

\* all sequences over S of length at most n
SeqsUpTo(S, n) == UNION { [1..k -> S] : k \in 0..n }

Flags == {"absent", "true", "false"}

AllSchemas == ArrayOpt(<<Log, Public, Secret>>)

\* entries tried in the schema option
SchemaEntries == {Public, Log, Secret, Bang \o Log, Bang \o Secret}

SchemaOptions ==
  {Absent}
    \cup { ArrayOpt(l) : l \in SeqsUpTo(SchemaEntries, MaxSchemaLen) }
    \cup { StringOpt(Public \o <<",", " ">> \o Log),
           StringOpt(Log \o <<",">> \o Bang \o Log),
           ArrayOpt(<<Public, Log, Bang \o Secret>>),
           ArrayOpt(<<Log, NonString>>) }

ExcludeOptions ==
  {Absent, ArrayOpt(<<Msg>>), ArrayOpt(<<Login>>),
   StringOpt(Msg \o <<",", " ">> \o Login)}

TextOptions ==
  {Absent, StringOpt(<<>>), StringOpt(Str("// user supplied text")), OtherOpt}

\* typeOverrides: the three tiers and the post-processor
TypeKeys == {MsgNotes, Notes, Text, Star}
TypeEntries(key) ==
  IF key = Star
  THEN {Lit(Str("overwritten")), Fn("append", Str(" | appended"))}
  ELSE {Lit(IF key = MsgNotes THEN Str("A")
            ELSE IF key = Notes THEN Str("B") ELSE Str("C")),
        Fn("null", <<>>), Fn("desc", Str("FunctionType"))}

\* the typeOverrides maps tried
TypeMaps ==
  UNION { { f \in [D -> UNION { TypeEntries(k) : k \in D }] :
              \A k \in D : f[k] \in TypeEntries(k) } : D \in SUBSET TypeKeys }

\* overrides: column keys, a table key, a schema key and the wildcard
NameKeys == {MsgNotes, Notes, Msg, Log, Star}
NameEntries(key) ==
  IF key = Star
  THEN {Lit(<<"A", "n", "y">>), Fn("keep", <<>>), Fn("null", <<>>),
        Fn("append", <<"X">>), Fn("table", <<"T">>)}
  ELSE IF key = Msg THEN {Lit(<<"M", "a", "i", "l">>), Fn("keep", <<>>)}
  ELSE IF key = Log THEN {Lit(<<"L">>)}
  ELSE {Lit(IF key = MsgNotes THEN Body ELSE Remarks),
        Fn("null", <<>>), Fn("keep", <<>>),
        Fn("const", <<"a", " ", "b">>)}

\* the overrides maps tried
NameMaps ==
  UNION { { f \in [D -> UNION { NameEntries(k) : k \in D }] :
              \A k \in D : f[k] \in NameEntries(k) } : D \in SUBSET NameKeys }

\* overrides: the name of an enum and the name of one of its members
IdpLi == Idp \o Dot \o <<"l", "i">>
Provider == <<"P", "r", "o", "v", "i", "d", "e", "r">>
LinkedIn == <<"L", "i", "n", "k", "e", "d", "I", "n">>
EnumKeys == {Idp, IdpLi}
EnumEntries(key) ==
  IF key = Idp THEN {Lit(Provider), Fn("const", Provider)}
  ELSE {Lit(LinkedIn)}

\* the overrides maps tried for enums
EnumMaps ==
  UNION { { f \in [D -> UNION { EnumEntries(k) : k \in D }] :
              \A k \in D : f[k] \in EnumEntries(k) } : D \in SUBSET EnumKeys }

\* functions that throw
ThrowingTypeOverrides ==
  { <<>>, Notes :> Fn("throw", <<>>), Star :> Fn("throw", <<>>) }
ThrowingOverrides ==
  { <<>>, Notes :> Fn("throw", <<>>), Msg :> Fn("throw", <<>>),
    Log :> Fn("throw", <<>>), Star :> Fn("throw", <<>>) }

\* runs that vary the schema and exclude options
FilterRuns ==
  { [DefaultOptions EXCEPT !.schema = s, !.exclude = e] :
      s \in SchemaOptions, e \in ExcludeOptions }

\* runs that vary the type overrides and their switches
TypeRuns ==
  { [DefaultOptions EXCEPT !.schema = AllSchemas, !.typeOverrides = t,
       !.overrideTableColumnTypes = f[1], !.overrideColumnTypes = f[2],
       !.overrideDefaultTypes = f[3]] :
      t \in TypeMaps,
      f \in Flags \X Flags \X Flags }

\* runs that vary the name overrides
NameRuns ==
  { [DefaultOptions EXCEPT !.schema = AllSchemas, !.overrides = o] :
      o \in NameMaps }

\* runs that vary the overrides of enum names
EnumRuns ==
  { [DefaultOptions EXCEPT !.overrides = o] : o \in EnumMaps }

\* runs with a prefix, a suffix and functions that throw
TextRuns ==
  { [DefaultOptions EXCEPT !.schema = s, !.prefix = p, !.suffix = x,
       !.overrides = o, !.typeOverrides = t] :
      s \in {Absent, AllSchemas}, p \in TextOptions, x \in TextOptions,
      o \in ThrowingOverrides, t \in ThrowingTypeOverrides }

OptionsTried ==
  FilterRuns \cup TypeRuns \cup NameRuns \cup EnumRuns \cup TextRuns

\* runs on the columns whose names need quotes: overrides and typeOverrides
\* keyed by such a name
QuotingRuns ==
  { [DefaultOptions EXCEPT !.overrides = o, !.typeOverrides = t] :
      o \in { <<>>, OneX :> Lit(Body), DollarX :> Lit(DisplayName),
              Usr \o Dot \o WithQuote :> Fn("keep", <<>>) },
      t \in { <<>>, OneX :> Lit(Str("A")),
              DisplayName :> Fn("desc", Str("FunctionType")) } }

\* the caller calls updateTypes once
Once == [k |-> "once"]
\* the caller calls updateTypes a second time with the options o, on a new
\* stream and a new handle (how = "fresh") or on those of the first call
\* (how = "same")
Again(how, o) == [k |-> how, options |-> o]

\* runs that are repeated with the same options
RepeatRuns ==
  { [DefaultOptions EXCEPT !.schema = s, !.prefix = p, !.overrides = o] :
      s \in {Absent, AllSchemas},
      p \in {Absent, StringOpt(Str("// user supplied text")), OtherOpt},
      o \in ThrowingOverrides \cup EnumMaps }

\* keys that name nothing in the database: an unknown word, an enum key in
\* another case, a storage tag with its array marker, a column that the
\* table does not have
Ghost == <<"g", "h", "o", "s", "t">>
IdpUpper == <<"I", "D", "_", "P">>
UsrGhost == Usr \o Dot \o Ghost
GhostKeys == {Ghost, IdpUpper, UText, UsrGhost}

\* the maps of such entries tried: one entry, or one under every key
GhostMaps ==
  { <<>>, [k \in GhostKeys |-> Lit(Provider)] }
    \cup { k :> e : k \in GhostKeys, e \in {Lit(Provider), Fn("throw", <<>>)} }

\* the runs to which such entries are added
GhostBases ==
  { [DefaultOptions EXCEPT !.schema = AllSchemas, !.overrides = o,
       !.typeOverrides = t] :
      o \in { <<>>, Idp :> Lit(Provider) },
      t \in { <<>>, Text :> Lit(Str("C")) } }

\* { ...base.overrides, ...g }, { ...base.typeOverrides, ...h }
WithGhosts(base, g, h) ==
  [base EXCEPT !.overrides = g @@ base.overrides,
               !.typeOverrides = h @@ base.typeOverrides]

\* a storage tag whose name has the form of a "table.column" pair
UsrId == Usr \o Dot \o Id

\* a database whose only table, public.usr, has columns named after types
\* they do not have (as the columns timestamp, char, float and double of
\* the test setup are), next to columns of those types
ClashCatalog ==
  [columns |->
     << Row(Public, Usr, Id, FALSE, NextVal, Str("integer"), Int4),
        Row(Public, Usr, Text, FALSE, Null, Str("integer"), Int4),
        Row(Public, Usr, Int4, TRUE, Null, Str("text"), Text),
        Row(Public, Usr, Notes, TRUE, Null, Str("text"), Text),
        Row(Public, Usr, Tags, FALSE, Null, ARRAY, UText),
        Row(Public, Usr, Bio, TRUE, Null, Str("USER-DEFINED"), UsrId),
        Row(Public, Usr, Prov, FALSE, Null, Str("USER-DEFINED"), Idp) >>,
   enums |-> CatalogEnums]

\* runs whose typeOverrides has a single key, a storage tag
ClashRuns ==
  { [DefaultOptions EXCEPT !.typeOverrides = k :> e,
       !.overrideTableColumnTypes = f, !.overrideColumnTypes = f,
       !.overrideDefaultTypes = f] :
      k \in {Text, Int4, UsrId, Idp},
      e \in {Lit(Str("Numeric")), Fn("desc", Str("FunctionType")),
             Fn("null", <<>>)},
      f \in {"absent", "true"} }

\* query results in which the rows of one enum and the rows of one table
\* are not next to each other (a handle whose results do not come in the
\* order the queries ask for)
ScrambledCatalog ==
  [columns |->
     << Row(Public, Usr, Id, FALSE, NextVal, Str("integer"), Int4),
        Row(Public, Login, Id, FALSE, NextVal, Str("integer"), Int4),
        Row(Public, Usr, Prov, TRUE, Null, Str("USER-DEFINED"), Idp),
        Row(Public, Usr, Notes, TRUE, Null, Str("text"), Text),
        Row(Public, Login, Notes, TRUE, Null, Str("text"), Text) >>,
   enums |->
     << [key |-> Idp, value |-> <<"g", "o">>],
        [key |-> Mood, value |-> <<"o", "k">>],
        [key |-> Idp, value |-> <<"l", "i">>],
        [key |-> Idp, value |-> <<"f", "b">>] >>]

\* the runs on such results
ScrambledRuns ==
  { [DefaultOptions EXCEPT !.suffix = x, !.overrides = o, !.exclude = e] :
      x \in {Absent, StringOpt(Str("// user supplied text"))},
      o \in EnumMaps \cup { Notes :> Fn("throw", <<>>) },
      e \in {Absent, ArrayOpt(<<Login>>)} }

\* ----------------------------------------------------------------- Init
Init ==
  /\ \/ options \in OptionsTried /\ catalog = MainCatalog /\ plan = Once
     \/ /\ options = DefaultOptions
        /\ catalog \in TagCatalogs \cup JsonCatalogs
        /\ plan = Once
     \/ options \in QuotingRuns /\ catalog = QuotingCatalog /\ plan = Once
     \/ /\ options \in RepeatRuns
        /\ catalog = MainCatalog
        /\ plan \in {Again("fresh", options), Again("same", options)}
     \/ options \in ClashRuns /\ catalog = ClashCatalog /\ plan = Once
     \/ options \in ScrambledRuns /\ catalog = ScrambledCatalog /\ plan = Once
     \/ \E base \in GhostBases, g \in GhostMaps, h \in GhostMaps :
          /\ options = WithGhosts(base, g, h)
          /\ catalog = MainCatalog
          /\ plan = Again("fresh", base)
  /\ invocation = 1
  /\ firstRun = Absent
  /\ streamEnded = FALSE
  /\ handleDestroyed = FALSE
  /\ pc = "start"
  /\ output = <<>>
  /\ ended = 0
  /\ destroyed = 0
  /\ queries = <<>>
  /\ includeSchemas = <<>>
  /\ excludeSchemas = <<>>
  /\ exclude = <<>>
  /\ enums = <<>>
  /\ enumsMap = <<>>
  /\ columns = <<>>
  /\ tables = <<>>
  /\ i = 1
  /\ thrown = NoError
  /\ result = Pending

\* a finally block that swallows the exception in flight
Settlement_Swallows(e) == Fulfilled

\* the promise of the async function once finally has run: rejected with the
\* exception in flight, fulfilled if there is none
Settlement(e) == IF e = NoError THEN Fulfilled ELSE Rejected(e)

\* -------------------------------------------------------------- actions
\* the exception e leaves the try block: control goes to finally
Throw(e) ==
  /\ thrown' = e
  /\ pc' = "finally"

\* a banner that tells one generation from the next
StampedBanner ==
  << [w |-> "banner1"], [w |-> "banner2", generation |-> invocation] >>

\* Begin with that banner
Begin_Stamped ==
  /\ pc = "start"
  /\ \E late \in (IF streamEnded THEN BOOLEAN ELSE {FALSE}) :
     IF late
     THEN \* the first write to a stream that has been ended raises its
          \* write-after-end error in the call (an old Node.js, no listener
          \* for "error"), outside try/finally; otherwise the error is
          \* emitted later and the writes are dropped
          /\ output' = Append(output, StampedBanner[1])
          /\ result' = Rejected("WriteAfterEnd")
          /\ pc' = "done"
          /\ UNCHANGED << queries, includeSchemas, excludeSchemas, exclude >>
     ELSE IF ParseThrows(options) \/ options.prefix.k = "other"
     THEN \* a TypeError outside try/finally: the promise rejects at once
          /\ output' = output \o StampedBanner
          /\ result' = Rejected("TypeError")
          /\ pc' = "done"
          /\ UNCHANGED << queries, includeSchemas, excludeSchemas, exclude >>
     ELSE /\ includeSchemas' = IncludeSchemas(SchemaList(options))
          /\ excludeSchemas' = ExcludeSchemas(SchemaList(options))
          /\ exclude' = ExcludeList(options)
          /\ output' = output \o StampedBanner
                         \o (IF Truthy(options.prefix)
                             THEN <<WText(options.prefix.v), WNewlines(2)>>
                             ELSE <<>>)
          /\ queries' = Append(queries, "enums")
          /\ pc' = "enumQuery"
          /\ UNCHANGED result
  /\ UNCHANGED << options, catalog, plan, invocation, firstRun, streamEnded,
                  handleDestroyed, ended, destroyed, enums, enumsMap, columns,
                  tables, i, thrown >>

\* lines 985-1025: banner, option parsing and prefix, all before the try
\* block, then the enum query is issued
Begin ==
  /\ pc = "start"
  /\ \E late \in (IF streamEnded THEN BOOLEAN ELSE {FALSE}) :
     IF late
     THEN \* the first write to a stream that has been ended raises its
          \* write-after-end error in the call (an old Node.js, no listener
          \* for "error"), outside try/finally; otherwise the error is
          \* emitted later and the writes are dropped
          /\ output' = Append(output, Banner[1])
          /\ result' = Rejected("WriteAfterEnd")
          /\ pc' = "done"
          /\ UNCHANGED << queries, includeSchemas, excludeSchemas, exclude >>
     ELSE IF ParseThrows(options) \/ options.prefix.k = "other"
     THEN \* a TypeError outside try/finally: the promise rejects at once
          /\ output' = output \o Banner
          /\ result' = Rejected("TypeError")
          /\ pc' = "done"
          /\ UNCHANGED << queries, includeSchemas, excludeSchemas, exclude >>
     ELSE /\ includeSchemas' = IncludeSchemas(SchemaList(options))
          /\ excludeSchemas' = ExcludeSchemas(SchemaList(options))
          /\ exclude' = ExcludeList(options)
          /\ output' = output \o Banner
                         \o (IF Truthy(options.prefix)
                             THEN <<WText(options.prefix.v), WNewlines(2)>>
                             ELSE <<>>)
          /\ queries' = Append(queries, "enums")
          /\ pc' = "enumQuery"
          /\ UNCHANGED result
  /\ UNCHANGED << options, catalog, plan, invocation, firstRun, streamEnded,
                  handleDestroyed, ended, destroyed, enums, enumsMap, columns,
                  tables, i, thrown >>

\* line 1020: the awaited enum query settles
EnumQueryReturn ==
  /\ pc = "enumQuery"
  /\ \E ok \in BOOLEAN :
       IF ok
       THEN /\ enums' = catalog.enums
            /\ pc' = "enums"
            /\ i' = 1
            /\ UNCHANGED thrown
       ELSE /\ Throw("EnumQueryError")
            /\ UNCHANGED << enums, i >>
  /\ UNCHANGED << options, catalog, plan, invocation, firstRun, streamEnded,
                  handleDestroyed, output, ended, destroyed, queries,
                  includeSchemas,
                  excludeSchemas, exclude, enumsMap, columns, tables, result >>

\* overrides[x.key] ?? upperFirst(camelCase(x.key))
EnumName(overrides, key) == Coalesce(Lookup(overrides, key), PascalCase(key))

\* s.replace(/[.-]/g, "_")
replaceDotDash(s) ==
  [k \in 1..Len(s) |-> IF s[k] \in {".", "-"} THEN "_" ELSE s[k]]

\* the member name without the default transform of the label
EnumMemberName_Raw(overrides, x) ==
  Coalesce(Lookup(overrides, x.key \o Dot \o x.value), x.value)

\* lines 1036-1038
EnumMemberName(overrides, x) ==
  Coalesce(Lookup(overrides, x.key \o Dot \o x.value),
           PascalCase(replaceDotDash(x.value)))

\* lines 1028-1045: one iteration of enums.forEach
EnumWrites(overrides, es, k) ==
  (IF ~(k > 1 /\ es[k - 1].key = es[k].key)
   THEN <<WEnumOpen(EnumName(overrides, es[k].key))>> ELSE <<>>)
  \o <<WEnumMember(EnumMemberName(overrides, es[k]), es[k].value)>>
  \o (IF ~(k < Len(es) /\ es[k + 1].key = es[k].key)
      THEN <<WClose>> ELSE <<>>)

EmitEnum ==
  /\ pc = "enums"
  /\ i <= Len(enums)
  /\ output' = output \o EnumWrites(options.overrides, enums, i)
  /\ i' = i + 1
  /\ UNCHANGED << options, catalog, plan, invocation, firstRun, streamEnded,
                  handleDestroyed, pc, ended, destroyed, queries,
                  includeSchemas,
                  excludeSchemas, exclude, enums, enumsMap, columns, tables,
                  thrown, result >>

\* the enum map that ignores overrides
EnumsMap_PascalOnly(overrides, es) ==
  [key \in { es[k].key : k \in 1..Len(es) } |-> PascalCase(key)]

\* lines 1047-1052: new Map(enums.map(x => [x.key, name]))
EnumsMap(overrides, es) ==
  [key \in { es[k].key : k \in 1..Len(es) } |-> EnumName(overrides, key)]

\* the column query issued without the enum map having been built
FetchColumns_NoMap ==
  /\ pc = "enums"
  /\ i > Len(enums)
  /\ enumsMap' = enumsMap
  /\ queries' = Append(queries, "columns")
  /\ pc' = "columnQuery"
  /\ UNCHANGED << options, catalog, plan, invocation, firstRun, streamEnded,
                  handleDestroyed, output, ended, destroyed, includeSchemas,
                  excludeSchemas, exclude, enums, columns, tables, i,
                  thrown, result >>

\* lines 1047-1072: the enum map is built and the column query is issued
FetchColumns ==
  /\ pc = "enums"
  /\ i > Len(enums)
  /\ enumsMap' = EnumsMap(options.overrides, enums)
  /\ queries' = Append(queries, "columns")
  /\ pc' = "columnQuery"
  /\ UNCHANGED << options, catalog, plan, invocation, firstRun, streamEnded,
                  handleDestroyed, output, ended, destroyed, includeSchemas,
                  excludeSchemas, exclude, enums, columns, tables, i,
                  thrown, result >>

\* lines 1078-1082: the distinct (table, schema) pairs in first-appearance
\* order
RECURSIVE UniqueTables(_, _, _)
UniqueTables(cols, k, acc) ==
  IF k > Len(cols) THEN acc
  ELSE LET t == [table |-> cols[k].table, schema |-> cols[k].schema] IN
       UniqueTables(cols, k + 1, IF Includes(acc, t) THEN acc
                                 ELSE Append(acc, t))

\* columns.find(x => x.table === table.table && x.schema === table.schema)
FindColumn(cols, t) ==
  cols[CHOOSE k \in 1..Len(cols) :
         /\ cols[k].table = t.table /\ cols[k].schema = t.schema
         /\ \A j \in 1..(k - 1) :
              ~(cols[j].table = t.table /\ cols[j].schema = t.schema)]

\* lines 1055-1082: the awaited column query settles; the table registry
\* is opened
ColumnQueryReturn ==
  /\ pc = "columnQuery"
  /\ \E ok \in BOOLEAN :
       IF ok
       THEN LET cols == ColumnQuery(catalog.columns, includeSchemas,
                                    excludeSchemas, exclude) IN
            /\ columns' = cols
            /\ output' = Append(output,
                 WTablesEnumOpen(NameOr(options.tablesEnumName, Str("Table"))))
            /\ tables' = UniqueTables(cols, 1, <<>>)
            /\ pc' = "tablesEnum"
            /\ i' = 1
            /\ UNCHANGED thrown
       ELSE /\ Throw("ColumnQueryError")
            /\ UNCHANGED << columns, output, tables, i >>
  /\ UNCHANGED << options, catalog, plan, invocation, firstRun, streamEnded,
                  handleDestroyed, ended, destroyed, queries, includeSchemas,
                  excludeSchemas, exclude, enums, enumsMap, result >>

\* lines 1085-1101: one iteration of the registry loop
WriteTableMember ==
  /\ pc = "tablesEnum"
  /\ i <= Len(tables)
  /\ LET x == FindColumn(columns, tables[i])
         key == TypeName(x, options.overrides)
     IN IF key = Thrown
        THEN /\ Throw("OverrideError")
             /\ UNCHANGED << output, i >>
        ELSE /\ output' = Append(output, WTableMember(key, RuntimeName(x)))
             /\ i' = i + 1
             /\ UNCHANGED << pc, thrown >>
  /\ UNCHANGED << options, catalog, plan, invocation, firstRun, streamEnded,
                  handleDestroyed, ended, destroyed, queries, includeSchemas,
                  excludeSchemas, exclude, enums, enumsMap, columns, tables,
                  result >>

\* lines 1102-1105: the registry is closed and the tables map opened
OpenTablesType ==
  /\ pc = "tablesEnum"
  /\ i > Len(tables)
  /\ output' = output \o
       << WClose,
          WTablesTypeOpen(NameOr(options.tablesTypeName, Str("Tables"))) >>
  /\ pc' = "tablesType"
  /\ i' = 1
  /\ UNCHANGED << options, catalog, plan, invocation, firstRun, streamEnded,
                  handleDestroyed, ended, destroyed, queries, includeSchemas,
                  excludeSchemas, exclude, enums, enumsMap, columns, tables,
                  thrown, result >>

\* lines 1106-1122: one iteration of the tables map loop
WriteTableEntry ==
  /\ pc = "tablesType"
  /\ i <= Len(tables)
  /\ LET x == FindColumn(columns, tables[i])
         key == TypeName(x, options.overrides)
     IN IF key = Thrown
        THEN /\ Throw("OverrideError")
             /\ UNCHANGED << output, i >>
        ELSE /\ output' = Append(output, WTableEntry(RuntimeName(x), key))
             /\ i' = i + 1
             /\ UNCHANGED << pc, thrown >>
  /\ UNCHANGED << options, catalog, plan, invocation, firstRun, streamEnded,
                  handleDestroyed, ended, destroyed, queries, includeSchemas,
                  excludeSchemas, exclude, enums, enumsMap, columns, tables,
                  result >>

\* line 1123: the tables map is closed
CloseTablesType ==
  /\ pc = "tablesType"
  /\ i > Len(tables)
  /\ output' = Append(output, WClose)
  /\ pc' = "columns"
  /\ i' = 1
  /\ UNCHANGED << options, catalog, plan, invocation, firstRun, streamEnded,
                  handleDestroyed, ended, destroyed, queries, includeSchemas,
                  excludeSchemas, exclude, enums, enumsMap, columns, tables,
                  thrown, result >>

\* lines 1127-1129: !(columns[i - 1] && columns[i - 1].table === x.table)
isTableFirstColumn(cols, k) == ~(k > 1 /\ cols[k - 1].table = cols[k].table)
\* a last-column test that looks at the schema as well
isTableLastColumn_BySchemaToo(cols, k) ==
  ~(k < Len(cols) /\ cols[k + 1].table = cols[k].table
                  /\ cols[k + 1].schema = cols[k].schema)

\* line 1157
isTableLastColumn(cols, k) ==
  ~(k < Len(cols) /\ cols[k + 1].table = cols[k].table)

\* forEach that walks the list from its end
ForEachItem_Reversed(cols, k) == cols[Len(cols) + 1 - k]

\* line 1126: the row forEach hands to its callback at index k
ForEachItem(cols, k) == cols[k]

\* lines 1126-1160: one iteration of columns.forEach; a function that throws
\* ends it after the writes already made
WriteColumn ==
  /\ pc = "columns"
  /\ i <= Len(columns)
  /\ LET x == ForEachItem(columns, i)
         first == isTableFirstColumn(columns, i)
         name == IF first THEN TypeName(x, options.overrides) ELSE <<>>
         opened == IF first THEN <<WTypeOpen(name)>> ELSE <<>>
         columnName == ColumnName(x, options.overrides)
         type == ColumnType(x, options, enumsMap)
     IN IF name = Thrown
        THEN /\ Throw("OverrideError")
             /\ UNCHANGED << output, i >>
        ELSE IF columnName = Thrown \/ type = Thrown
        THEN /\ Throw("OverrideError")
             /\ output' = output \o opened
             /\ UNCHANGED i
        ELSE /\ output' = output \o opened
                  \o <<WColumn(sanitize(columnName), ToText(type))>>
                  \o (IF isTableLastColumn(columns, i)
                      THEN <<WClose>> ELSE <<>>)
             /\ i' = i + 1
             /\ UNCHANGED << pc, thrown >>
  /\ UNCHANGED << options, catalog, plan, invocation, firstRun, streamEnded,
                  handleDestroyed, ended, destroyed, queries, includeSchemas,
                  excludeSchemas, exclude, enums, enumsMap, columns, tables,
                  result >>

\* lines 1162-1165: the suffix; the try block is left
WriteSuffix ==
  /\ pc = "columns"
  /\ i > Len(columns)
  /\ IF options.suffix.k = "other"
     THEN \* output.write of a value that is not a string throws
          /\ Throw("TypeError")
          /\ UNCHANGED output
     ELSE /\ output' = output \o (IF Truthy(options.suffix)
                                  THEN <<WText(options.suffix.v), WNewlines(1)>>
                                  ELSE <<>>)
          /\ pc' = "finally"
          /\ UNCHANGED thrown
  /\ UNCHANGED << options, catalog, plan, invocation, firstRun, streamEnded,
                  handleDestroyed, ended, destroyed, queries, includeSchemas,
                  excludeSchemas, exclude, enums, enumsMap, columns, tables,
                  i, result >>

\* line 1167, output.end(): the stream is ended afterwards
end(ended_) == TRUE

\* line 1168, db.destroy(): the handle is destroyed afterwards
destroy(destroyed_) == TRUE

\* lines 1166-1169: output.end(), db.destroy(), then the promise settles
Finally ==
  /\ pc = "finally"
  /\ ended' = ended + 1
  /\ destroyed' = destroyed + 1
  /\ result' = Settlement(thrown)
  /\ pc' = "done"
  /\ streamEnded' = end(streamEnded)
  /\ handleDestroyed' = destroy(handleDestroyed)
  /\ UNCHANGED << options, catalog, plan, invocation, firstRun, output, queries,
                  includeSchemas, excludeSchemas, exclude, enums, enumsMap,
                  columns, tables, i, thrown >>

\* the caller calls updateTypes again once the first promise has settled:
\* with a new stream and a new handle, or with the same ones
InvokeAgain ==
  /\ pc = "done"
  /\ invocation = 1
  /\ plan.k \in {"fresh", "same"}
  /\ invocation' = 2
  /\ firstRun' = [options |-> options, output |-> output,
                  result |-> result, ended |-> ended,
                  destroyed |-> destroyed]
  /\ options' = plan.options
  /\ streamEnded' = IF plan.k = "same" THEN streamEnded ELSE FALSE
  /\ handleDestroyed' = IF plan.k = "same" THEN handleDestroyed ELSE FALSE
  /\ pc' = "start"
  /\ output' = <<>>
  /\ ended' = 0
  /\ destroyed' = 0
  /\ queries' = <<>>
  /\ includeSchemas' = <<>>
  /\ excludeSchemas' = <<>>
  /\ exclude' = <<>>
  /\ enums' = <<>>
  /\ enumsMap' = <<>>
  /\ columns' = <<>>
  /\ tables' = <<>>
  /\ i' = 1
  /\ thrown' = NoError
  /\ result' = Pending
  /\ UNCHANGED << catalog, plan >>

Next ==
  \/ Begin
  \/ EnumQueryReturn
  \/ EmitEnum
  \/ FetchColumns
  \/ ColumnQueryReturn
  \/ WriteTableMember
  \/ OpenTablesType
  \/ WriteTableEntry
  \/ CloseTablesType
  \/ WriteColumn
  \/ WriteSuffix
  \/ Finally
  \/ InvokeAgain

Spec == Init /\ [][Next]_vars

\* ------------------------------------------------- reading the output back
Range(xs) == { xs[k] : k \in 1..Len(xs) }

\* the column lines written so far; forEach writes one per row, in row
\* order, so the k-th of them belongs to columns[k]
ColumnWrites == SelectSeq(output, LAMBDA w : w.w = "column")

\* structural suffixes of a column: "[]" for arrays, then " | null"
ArraySuffix(x) == IF x.type = ARRAY THEN Str("[]") ELSE <<>>
NullSuffix(x) == IF x.nullable THEN Str(" | null") ELSE <<>>

HasStar(m) == Star \in DOMAIN m

\* ------------------------------------------------------------------- C1
\* C1 (as claimed): whenever updateTypes has exited, normally or with an
\* error raised at any step after the first banner write (option parsing and
\* the prefix write included), output.end() has been called exactly once and
\* db.destroy() exactly once.
C1_ReleasedOnceOnEveryExit ==
  pc = "done" => ended = 1 /\ destroyed = 1

\* ------------------------------------------------------------------- C2
GenerationFailed ==
  thrown \in {"EnumQueryError", "ColumnQueryError", "OverrideError"}

\* C2: once the enum query or the column query has failed or an override
\* function has thrown, no further catalog query is issued and nothing more
\* is written, the run can only go through the cleanup, where the stream is
\* ended and the handle destroyed once each, and the promise rejects with
\* that same error; it is never fulfilled.
C2_FailureIsSurfaced ==
  /\ [](GenerationFailed =>
          /\ pc \in {"finally", "done"}
          /\ result.state # "fulfilled"
          /\ (pc = "done" =>
                ended = 1 /\ destroyed = 1 /\ result = Rejected(thrown)))
  /\ [][(GenerationFailed /\ invocation' = invocation) =>
          output' = output /\ queries' = queries /\ thrown' = thrown]_vars
  /\ [][(thrown' # thrown /\ invocation' = invocation) =>
          queries' = queries]_vars

C2_Witness ==
  /\ pc = "done"
  /\ thrown = "OverrideError"
  /\ result = Rejected("OverrideError")
  /\ Len(ColumnWrites) > 0
  /\ Len(queries) = 2

\* ------------------------------------------------------------------- C3
\* the schema names s given both as "s" and as "!s"
BothIncludedAndExcluded ==
  { s \in Range(SchemaList(options)) :
      ~startsWith(s, Bang) /\ Includes(SchemaList(options), Bang \o s) }

\* C3 (as claimed): a schema given both as an include entry and as an
\* exclude entry is excluded: the column list holds no row of it and no
\* table of it is written to the registry.
C3_ExcludeWins ==
  /\ \A k \in 1..Len(columns) :
       columns[k].schema \notin BothIncludedAndExcluded
  /\ \A k \in 1..Len(output) :
       output[k].w = "tableMember" =>
         \A r \in Range(catalog.columns) :
           RuntimeName(r) = output[k].value =>
             r.schema \notin BothIncludedAndExcluded

\* ------------------------------------------------------------------- C4
\* the schemas listed in the schema option without a "!" prefix; "public"
\* alone when the option is omitted
ListedSchemas ==
  IF options.schema.k = "absent" THEN {Public}
  ELSE { e \in Range(SchemaList(options)) : ~startsWith(e, Bang) }

ExcludedTables == Range(ExcludeList(options))

Allowed(r) == r.schema \in ListedSchemas /\ r.table \notin ExcludedTables

\* C4: every table written to the registry, to the tables map or as a record
\* block, and every row of the column list, is a table of a schema listed
\* without "!" (only "public" when the option is omitted) whose name is not
\* in the exclude option.
C4_OnlyListedTables ==
  /\ \A k \in 1..Len(columns) : Allowed(columns[k])
  /\ \A k \in 1..Len(output) :
       /\ output[k].w \in {"tableMember", "tableEntry"} =>
            \E r \in Range(catalog.columns) :
              Allowed(r) /\ RuntimeName(r) = output[k].value
       /\ output[k].w = "typeOpen" =>
            \E r \in Range(catalog.columns) :
              Allowed(r) /\ TypeName(r, options.overrides) = output[k].name

C4_Witness ==
  /\ result = Fulfilled
  /\ Len(ColumnWrites) > 0
  /\ options.schema.k # "absent"
  /\ \E r \in Range(catalog.columns) : r.schema \notin ListedSchemas
  /\ \E r \in Range(catalog.columns) :
       r.schema \in ListedSchemas /\ r.table \in ExcludedTables

\* ------------------------------------------------------------- C5 .. C9
\* a tier switch that is absent or true
Enabled(flag) == flag \in {"absent", "true"}

AllTiersOn ==
  /\ Enabled(options.overrideTableColumnTypes)
  /\ Enabled(options.overrideColumnTypes)
  /\ Enabled(options.overrideDefaultTypes)

\* the value an entry of typeOverrides yields for column x
TierValue(key, x) == Apply(options.typeOverrides[key], x, Null)

\* the type of the mapping table for column x
MappedType(x) == getType(x, enumsMap)

\* base followed by the structural suffixes of x
WithSuffixes(base, x) == base \o ArraySuffix(x) \o NullSuffix(x)

\* C5: with the three tiers enabled and typeOverrides holding the keys
\* "T.c", "c" and the storage tag (and no "*"), the base type written for
\* column c of table T comes from the "T.c" entry, for a column c of another
\* table from the "c" entry, and for a column of that storage tag with
\* another name from the storage-tag entry; no lower tier is consulted (an
\* entry that yields null leaves the mapped type).
C5_MostSpecificTierWins ==
  ( /\ AllTiersOn
    /\ {MsgNotes, Notes, Text} \subseteq DOMAIN options.typeOverrides
    /\ ~HasStar(options.typeOverrides) ) =>
  \A k \in 1..Len(ColumnWrites) :
    LET x == columns[k]
        expected ==
          IF x.table = Msg /\ x.column = Notes THEN TierValue(MsgNotes, x)
          ELSE IF x.column = Notes THEN TierValue(Notes, x)
          ELSE IF Udt(x) = Text THEN TierValue(Text, x)
          ELSE Null
    IN ColumnWrites[k].type =
         WithSuffixes(Coalesce(expected, MappedType(x)), x)

C5_Witness ==
  /\ pc = "done"
  /\ AllTiersOn
  /\ ~HasStar(options.typeOverrides)
  /\ {MsgNotes, Notes, Text} \subseteq DOMAIN options.typeOverrides
  /\ \E k \in 1..Len(ColumnWrites) :
       /\ columns[k].table = Msg /\ columns[k].column = Notes
       /\ ColumnWrites[k].type = <<"A", " | null">>
  /\ \E k \in 1..Len(ColumnWrites) :
       /\ columns[k].table = Usr /\ columns[k].column = Notes
       /\ ColumnWrites[k].type = <<"B">>
  /\ \E k \in 1..Len(ColumnWrites) :
       /\ columns[k].column = Tags
       /\ ColumnWrites[k].type = <<"C", "[]", " | null">>

\* the tiers of typeOverrides that are switched on and whose key is present
\* for column x, in priority order
MatchingTiers(x) ==
  SelectSeq(
    << [on |-> Enabled(options.overrideTableColumnTypes),
        key |-> TableColumnKey(x)],
       [on |-> Enabled(options.overrideColumnTypes), key |-> x.column],
       [on |-> Enabled(options.overrideDefaultTypes), key |-> Udt(x)] >>,
    LAMBDA t : t.on /\ t.key \in DOMAIN options.typeOverrides)

\* the first value that is not null among the matching tiers from the n-th on
RECURSIVE FirstValue(_, _, _)
FirstValue(tiers, n, x) ==
  IF n > Len(tiers) THEN Null
  ELSE Coalesce(TierValue(tiers[n].key, x), FirstValue(tiers, n + 1, x))

\* C6 (as claimed): a tier whose function returns null counts as no override
\* and the next lower matching tier is consulted; the mapped type is used
\* only if no matching tier yields a value.
C6_NullContinuesDownTheChain ==
  ~HasStar(options.typeOverrides) =>
  \A k \in 1..Len(ColumnWrites) :
    LET x == columns[k] IN
    ColumnWrites[k].type =
      WithSuffixes(
        Coalesce(FirstValue(MatchingTiers(x), 1, x), MappedType(x)), x)

\* C7: a tier whose switch is absent is on, like one whose switch is true; a
\* tier whose switch is false is ignored for every column, and the first of
\* the remaining tiers whose key is present decides the base type.
C7_DisabledTierIsSkipped ==
  ~HasStar(options.typeOverrides) =>
  \A k \in 1..Len(ColumnWrites) :
    LET x == columns[k]
        tiers == MatchingTiers(x)
        base == IF tiers = <<>> THEN MappedType(x)
                ELSE Coalesce(TierValue(tiers[1].key, x), MappedType(x))
    IN ColumnWrites[k].type = WithSuffixes(base, x)

C7_Witness ==
  /\ pc = "done"
  /\ options.overrideTableColumnTypes = "false"
  /\ options.overrideColumnTypes = "absent"
  /\ {MsgNotes, Notes} \subseteq DOMAIN options.typeOverrides
  /\ options.typeOverrides[MsgNotes] = Lit(Str("A"))
  /\ \E k \in 1..Len(ColumnWrites) :
       /\ columns[k].table = Msg /\ columns[k].column = Notes
       /\ ColumnWrites[k].type = <<"B", " | null">>

\* C8: with a "*" entry in typeOverrides the type written for every column
\* is that entry's result: the literal alone, without "[]" or " | null", or
\* the value the function returns for the descriptor and the assembled type
\* (base or tier override, then the suffixes).
C8_PostProcessorIsFinal ==
  HasStar(options.typeOverrides) =>
  \A k \in 1..Len(ColumnWrites) :
    LET x == columns[k]
        star == options.typeOverrides[Star]
        assembled ==
          WithSuffixes(Coalesce(overrideType(x, options), MappedType(x)), x)
    IN ColumnWrites[k].type =
         (IF isFunction(star) THEN ToText(Call(star, x, assembled))
          ELSE star.v)

C8_Witness ==
  /\ pc = "done"
  /\ HasStar(options.typeOverrides)
  /\ \E k \in 1..Len(ColumnWrites) :
       ColumnWrites[k].type = <<"C", "[]", " | null", " | appended">>

\* C9: the type assembled for a column is T, T[], T | null or T[] | null
\* according to (type = "ARRAY", nullable), T being the tier override or the
\* mapped type: "[]" comes before " | null".
C9_ArrayThenNull ==
  ~HasStar(options.typeOverrides) =>
  \A k \in 1..Len(ColumnWrites) :
    LET x == columns[k]
        T == Coalesce(overrideType(x, options), MappedType(x))
        w == ColumnWrites[k].type
    IN /\ (x.type = ARRAY /\ x.nullable) => w = T \o <<"[]", " | null">>
       /\ (x.type = ARRAY /\ ~x.nullable) => w = T \o <<"[]">>
       /\ (x.type # ARRAY /\ x.nullable) => w = T \o <<" | null">>
       /\ (x.type # ARRAY /\ ~x.nullable) => w = T

C9_Witness ==
  /\ pc = "done"
  /\ \E k \in 1..Len(ColumnWrites) :
       /\ columns[k].type = ARRAY /\ columns[k].nullable
       /\ ColumnWrites[k].type = <<"string", "[]", " | null">>
  /\ \E k \in 1..Len(ColumnWrites) :
       ColumnWrites[k].type = <<"number">>

\* ------------------------------------------------------------------ C10
\* C10: with no "*" in overrides, the name of a column is what the
\* "<table>.<column>" entry yields if that key exists, otherwise what the
\* "<column>" entry yields if that key exists, otherwise the database column
\* name unchanged (also when the entry is a function that returns null); the
\* key written is that name, quoted if it is not an identifier.
C10_ColumnNameResolution ==
  ~HasStar(options.overrides) =>
  \A k \in 1..Len(ColumnWrites) :
    LET x == columns[k]
        o == options.overrides
        resolved ==
          IF TableColumnKey(x) \in DOMAIN o
          THEN Coalesce(Apply(o[TableColumnKey(x)], x, x.column), x.column)
          ELSE IF x.column \in DOMAIN o
          THEN Coalesce(Apply(o[x.column], x, x.column), x.column)
          ELSE x.column
    IN ColumnWrites[k].key = sanitize(resolved)

C10_Witness ==
  /\ pc = "done"
  /\ ~HasStar(options.overrides)
  /\ {MsgNotes, Notes} \subseteq DOMAIN options.overrides
  /\ \E k \in 1..Len(ColumnWrites) :
       /\ columns[k].table = Msg /\ columns[k].column = Notes
       /\ ColumnWrites[k].key = Body
  /\ \E k \in 1..Len(ColumnWrites) :
       /\ columns[k].table = Usr /\ columns[k].column = Notes
       /\ ColumnWrites[k].key = Remarks
  /\ \E k \in 1..Len(ColumnWrites) :
       /\ columns[k].column = Bio
       /\ ColumnWrites[k].key = Bio

\* ------------------------------------------------------------ C11, C12
\* the registry members written so far; the k-th belongs to tables[k]
TableMembers == SelectSeq(output, LAMBDA w : w.w = "tableMember")
\* the entries of the tables map written so far; the k-th belongs to tables[k]
TableEntries == SelectSeq(output, LAMBDA w : w.w = "tableEntry")

\* the first row of the k-th distinct table of the column list
TableRow(k) == FindColumn(columns, tables[k])

\* overrides holds "*" as a function
StarIsFunction ==
  HasStar(options.overrides) /\ isFunction(options.overrides[Star])

\* what the matching specific key of overrides yields for x: "T.c" before
\* "c" for a column, the table or schema name otherwise; Null if no key
\* matches
SpecificName(x, category) ==
  LET o == options.overrides
      keys == IF category = "column" THEN <<TableColumnKey(x), x.column>>
              ELSE <<Field(x, category)>>
      present == SelectSeq(keys, LAMBDA key : key \in DOMAIN o)
  IN IF present = <<>> THEN Null
     ELSE ApplyName(o[present[1]], x, category, Field(x, category))

\* the default transform: PascalCase for a table and for a schema (nothing
\* for "public"), the name unchanged for a column
DefaultName(x, category) ==
  CASE category = "table" -> PascalCase(x.table)
    [] category = "schema" ->
         IF x.schema = Public THEN <<>> ELSE PascalCase(x.schema)
    [] category = "column" -> x.column

\* the name as claimed: "*" is called with the specific value or else the
\* default transform
NameWithDefaultPassed(x, category) ==
  CallName(options.overrides[Star], x, category,
           Coalesce(SpecificName(x, category), DefaultName(x, category)))

\* the name when "*" is called with the specific value or else null, the
\* default transform replacing a null result
NameWithNullPassed(x, category) ==
  Coalesce(CallName(options.overrides[Star], x, category,
                    SpecificName(x, category)),
           DefaultName(x, category))

\* C11 (as claimed): a "*" function of overrides is called last for every
\* table, schema and column name with the value resolved so far, which is
\* the specific override's value if a key matched and the default transform
\* otherwise; what it returns is the name written.
C11_StarReceivesDefaultTransform ==
  StarIsFunction =>
    /\ \A k \in 1..Len(ColumnWrites) :
         LET n == NameWithDefaultPassed(columns[k], "column") IN
         n # Null => ColumnWrites[k].key = sanitize(n)
    /\ \A k \in 1..Len(TableMembers) :
         LET sn == NameWithDefaultPassed(TableRow(k), "schema")
             tn == NameWithDefaultPassed(TableRow(k), "table")
         IN (sn # Null /\ tn # Null) => TableMembers[k].key = sn \o tn

\* C11 (amended): a "*" function of overrides is called last for every
\* table, schema and column name with the descriptor, the category and the
\* specific override's value if a key matched, null otherwise; the name
\* written is what it returns, or the default transform if it returns null.
C11_StarReceivesSpecificOrNull ==
  StarIsFunction =>
    /\ \A k \in 1..Len(ColumnWrites) :
         ColumnWrites[k].key =
           sanitize(NameWithNullPassed(columns[k], "column"))
    /\ \A k \in 1..Len(TableMembers) :
         TableMembers[k].key =
           NameWithNullPassed(TableRow(k), "schema")
             \o NameWithNullPassed(TableRow(k), "table")
    /\ \A k \in 1..Len(TableEntries) :
         TableEntries[k].key =
           NameWithNullPassed(TableRow(k), "schema")
             \o NameWithNullPassed(TableRow(k), "table")

C11_Witness ==
  /\ pc = "done"
  /\ result = Fulfilled
  /\ StarIsFunction
  /\ options.overrides[Star] = Fn("append", <<"X">>)
  /\ \E k \in 1..Len(ColumnWrites) :
       /\ columns[k].column = Notes
       /\ ColumnWrites[k].key = Remarks \o <<"X">>
  /\ \E k \in 1..Len(ColumnWrites) :
       /\ columns[k].column = Bio
       /\ ColumnWrites[k].key = NullText \o <<"X">>
  /\ \E k \in 1..Len(TableMembers) :
       /\ TableRow(k).schema = Log
       /\ TableMembers[k].key = <<"L", "X">> \o NullText \o <<"X">>

\* C12 (as claimed): when a specific key of overrides yielded a name and the
\* "*" function then returns null, the name written is the specific
\* override's name, not the default transform.
C12_NullKeepsSpecificName ==
  StarIsFunction =>
    /\ \A k \in 1..Len(ColumnWrites) :
         LET v == SpecificName(columns[k], "column") IN
         ( /\ v # Null
           /\ CallName(options.overrides[Star], columns[k], "column", v)
                = Null ) =>
         ColumnWrites[k].key = sanitize(v)
    /\ \A k \in 1..Len(TableMembers) :
         LET v == SpecificName(TableRow(k), "table")
             key == TableMembers[k].key
         IN ( /\ v # Null
              /\ CallName(options.overrides[Star], TableRow(k), "table", v)
                   = Null ) =>
            /\ Len(key) >= Len(v)
            /\ SubSeq(key, Len(key) - Len(v) + 1, Len(key)) = v

\* ----------------------------------------------------------- C13 .. C16
\* the record section written so far: block headers and column lines
RecordSection ==
  SelectSeq(output, LAMBDA w : w.w \in {"typeOpen", "column"})

\* the number of block headers among the first p records of the section:
\* the block the p-th record lies in
BlockOf(p) ==
  Cardinality({ q \in 1..p : RecordSection[q].w = "typeOpen" })

\* the number of column lines among the first p records of the section: the
\* row the p-th record belongs to, when it is a column line
RowOf(p) ==
  Cardinality({ q \in 1..p : RecordSection[q].w = "column" })

PairOf(x) == [table |-> x.table, schema |-> x.schema]

\* the rows of the column list that start a (schema, table) pair
FirstRows ==
  { j \in 1..Len(columns) :
      \A h \in 1..(j - 1) : PairOf(columns[h]) # PairOf(columns[j]) }

\* the first row of the k-th distinct pair, in first-appearance order
NthFirstRow(k) ==
  CHOOSE j \in FirstRows : Cardinality({ h \in FirstRows : h < j }) = k - 1

\* C13 (as claimed): the record section holds one block per distinct
\* (schema, table) pair of the column list, and every column line lies in
\* the block of its own pair, also when two tables of the same name in
\* different schemas are adjacent in the list.
C13_OneBlockPerPair ==
  /\ \A p \in 1..Len(RecordSection) :
       RecordSection[p].w = "column" =>
         /\ BlockOf(p) \in 1..Cardinality(FirstRows)
         /\ PairOf(columns[NthFirstRow(BlockOf(p))])
              = PairOf(columns[RowOf(p)])
  /\ result = Fulfilled =>
       BlockOf(Len(RecordSection)) = Cardinality(FirstRows)

\* C14: what has been written stays written, in place; the column lines are
\* those of the rows of the column list, in row order, and every block header
\* that is followed by a line is the header of that line's table, so that
\* the blocks follow one another in the order of the list.
C14_EmissionOrder ==
  /\ [][ invocation' = invocation =>
           /\ Len(output') >= Len(output)
           /\ SubSeq(output', 1, Len(output)) = output ]_vars
  /\ [](/\ \A k \in 1..Len(ColumnWrites) :
             ColumnWrites[k].key =
               sanitize(ColumnName(columns[k], options.overrides))
        /\ \A p \in 1..(Len(RecordSection) - 1) :
             RecordSection[p].w = "typeOpen" =>
               /\ RecordSection[p + 1].w = "column"
               /\ RecordSection[p].name =
                    TypeName(columns[RowOf(p + 1)], options.overrides)
        /\ \A p \in 1..Len(RecordSection) :
             RecordSection[p].w = "column" => BlockOf(p) >= 1)

C14_Witness ==
  /\ result = Fulfilled
  /\ options.overrides = <<>>
  /\ BlockOf(Len(RecordSection)) = 4
  /\ RowOf(Len(RecordSection)) = Len(catalog.columns)
  /\ RecordSection[1].name = PascalCase(Log) \o PascalCase(Msg)
  /\ ColumnWrites[1].key = Id
  /\ ColumnWrites[2].key = Notes
  /\ ColumnWrites[4].key = Notes
  /\ ColumnWrites[5].key = Bio

\* the table registry has been closed
RegistryClosed == \E k \in 1..Len(output) : output[k].w = "tablesTypeOpen"

\* no key of overrides matches the table or the schema of x
NoNameOverride(x) ==
  /\ ~HasStar(options.overrides)
  /\ x.table \notin DOMAIN options.overrides
  /\ x.schema \notin DOMAIN options.overrides

\* C15: the table registry has one member per distinct (schema, table) pair
\* of the column list, in first-appearance order; its value is the bare table
\* name for a table of "public" and "schema.table" otherwise, and with no
\* matching name override its key is PascalCase(table) for a table of
\* "public" and PascalCase(schema) followed by PascalCase(table) otherwise.
C15_RegistryMembers ==
  RegistryClosed =>
    /\ Len(TableMembers) = Cardinality(FirstRows)
    /\ \A k \in 1..Len(TableMembers) :
         LET x == columns[NthFirstRow(k)] IN
         /\ TableMembers[k].value =
              (IF x.schema = Public THEN x.table
               ELSE x.schema \o Dot \o x.table)
         /\ NoNameOverride(x) =>
              TableMembers[k].key =
                (IF x.schema = Public THEN PascalCase(x.table)
                 ELSE PascalCase(x.schema) \o PascalCase(x.table))

C15_Witness ==
  /\ result = Fulfilled
  /\ options.overrides = <<>>
  /\ Len(TableMembers) = 4
  /\ TableMembers[1] =
       WTableMember(<<"L", "o", "g", "M", "s", "g">>, Log \o Dot \o Msg)
  /\ TableMembers[2] = WTableMember(<<"L", "o", "g", "i", "n">>, Login)
  /\ TableMembers[4] =
       WTableMember(<<"S", "e", "c", "M", "s", "g">>, Secret \o Dot \o Msg)

\* C16 (as claimed): for every table of the column list the tables map has
\* one entry whose key is the registry member's value and whose type name is
\* the registry member's key and the name of a record block written for that
\* same table.
C16_MapNamesDeclaredTypes ==
  result = Fulfilled =>
    /\ Len(TableEntries) = Cardinality(FirstRows)
    /\ \A k \in 1..Len(TableEntries) :
         /\ TableEntries[k].value = TableMembers[k].value
         /\ TableEntries[k].key = TableMembers[k].key
         /\ \E p \in 1..(Len(RecordSection) - 1) :
              /\ RecordSection[p] = WTypeOpen(TableEntries[k].key)
              /\ PairOf(columns[RowOf(p + 1)])
                   = PairOf(columns[NthFirstRow(k)])

\* ------------------------------------------------------------ C17, C18
\* the enum section written so far: declaration headers and members
EnumSection ==
  SelectSeq(output, LAMBDA w : w.w \in {"enumOpen", "enumMember"})

\* the number of members among the first p records of the enum section: the
\* row of the enum list the p-th record belongs to, when it is a member
EnumRowOf(p) ==
  Cardinality({ q \in 1..p : EnumSection[q].w = "enumMember" })

\* the number of headers among the first p records of the enum section
EnumOpensUpTo(p) ==
  Cardinality({ q \in 1..p : EnumSection[q].w = "enumOpen" })

\* rows of the same key are contiguous in the enum list
Contiguous(es) ==
  \A a, b \in 1..Len(es) :
    (a < b /\ es[a].key = es[b].key) =>
      \A c \in a..b : es[c].key = es[a].key

\* the entry of overrides under key as it is written, null without one
OverridesEntry(key) ==
  IF key \in DOMAIN options.overrides
  THEN Interpolate(options.overrides[key]) ELSE Null

\* the name of the declaration of the enum key
DeclaredEnumName(key) == Coalesce(OverridesEntry(key), PascalCase(key))

NoTypeOverride(x) ==
  /\ ~HasStar(options.typeOverrides)
  /\ MatchingTiers(x) = <<>>

\* C18: a column whose stripped storage tag is the key of a collected enum,
\* and to which no type override applies, is written with the name of that
\* enum's declaration header (the overrides entry for the key, else
\* PascalCase of the key) followed by "[]" for an array and " | null" for a
\* nullable column.
C18_EnumColumnsUseDeclaredName ==
  \A k \in 1..Len(ColumnWrites) :
    LET x == columns[k] IN
    ( /\ NoTypeOverride(x)
      /\ \E h \in 1..Len(enums) : enums[h].key = Udt(x) ) =>
    /\ ColumnWrites[k].type = WithSuffixes(DeclaredEnumName(Udt(x)), x)
    /\ \E p \in 1..(Len(EnumSection) - 1) :
         /\ EnumSection[p] = WEnumOpen(DeclaredEnumName(Udt(x)))
         /\ enums[EnumRowOf(p + 1)].key = Udt(x)

C18_Witness ==
  /\ pc = "done"
  /\ result = Fulfilled
  /\ Idp \in DOMAIN options.overrides
  /\ options.overrides[Idp] = Lit(Provider)
  /\ \E k \in 1..Len(ColumnWrites) :
       /\ columns[k].column = Prov
       /\ ColumnWrites[k].type = Provider
  /\ \E k \in 1..Len(ColumnWrites) :
       /\ columns[k].column = Provs
       /\ ColumnWrites[k].type = Provider \o <<"[]", " | null">>

\* ------------------------------------------------------------ C19, C20
\* the storage tags the mapping table gives as number
ClaimedNumberTags ==
  { <<"s", "m", "a", "l", "l", "i", "n", "t">>,
    <<"i", "n", "t", "e", "g", "e", "r">>,
    <<"i", "n", "t">>,
    <<"i", "n", "t", "2">>,
    <<"i", "n", "t", "4">>,
    <<"r", "e", "a", "l">>,
    <<"f", "l", "o", "a", "t">>,
    <<"f", "l", "o", "a", "t", "4">>,
    <<"f", "l", "o", "a", "t", "8">> }

\* C19 (as claimed): a column whose stripped storage tag is smallint,
\* integer, int, int2, int4, real, float, float4 or float8, and to which no
\* type override applies, is written with the base type "number".
C19_NumberTags ==
  \A k \in 1..Len(ColumnWrites) :
    LET x == columns[k] IN
    (NoTypeOverride(x) /\ Udt(x) \in ClaimedNumberTags) =>
      ColumnWrites[k].type = WithSuffixes(Str("number"), x)

\* the storage tags the mapping table gives as string and as Date
ClaimedStringTags ==
  { <<"t", "e", "x", "t">>,
    <<"c", "i", "t", "e", "x", "t">>,
    <<"m", "o", "n", "e", "y">>,
    <<"n", "u", "m", "e", "r", "i", "c">>,
    <<"i", "n", "t", "8">>,
    <<"c", "h", "a", "r">>,
    <<"c", "h", "a", "r", "a", "c", "t", "e", "r">>,
    <<"b", "p", "c", "h", "a", "r">>,
    <<"v", "a", "r", "c", "h", "a", "r">>,
    <<"t", "i", "m", "e">>,
    <<"t", "s", "q", "u", "e", "r", "y">>,
    <<"t", "s", "v", "e", "c", "t", "o", "r">>,
    <<"u", "u", "i", "d">>,
    <<"x", "m", "l">>,
    <<"c", "i", "d", "r">>,
    <<"i", "n", "e", "t">>,
    <<"m", "a", "c", "a", "d", "d", "r">> }
ClaimedDateTags ==
  { <<"d", "a", "t", "e">>,
    <<"t", "i", "m", "e", "s", "t", "a", "m", "p">>,
    <<"t", "i", "m", "e", "s", "t", "a", "m", "p", "t", "z">> }

\* every storage tag of the mapping table
ClaimedTableTags ==
  {Bool, Bytea, Interval, Json, Jsonb}
    \cup ClaimedStringTags \cup ClaimedNumberTags \cup ClaimedDateTags

\* the tag looked up for x: udt, without its first character for an array
LookedUpTag(x) ==
  IF x.type = ARRAY THEN SubSeq(x.udt, 2, Len(x.udt)) ELSE x.udt

\* C20: with no type override the base type written for a column is boolean
\* for bool, string for the string tags, Date for date, timestamp and
\* timestamptz, Buffer for bytea, PostgresInterval for interval, and unknown
\* for a tag that is neither in the mapping table nor the key of a collected
\* enum; for a column of catalog type ARRAY the tag is udt without its first
\* character.
C20_MappingTable ==
  \A k \in 1..Len(ColumnWrites) :
    LET x == columns[k]
        tag == LookedUpTag(x)
        written == ColumnWrites[k].type
    IN NoTypeOverride(x) =>
         /\ tag = Bool => written = WithSuffixes(Str("boolean"), x)
         /\ tag \in ClaimedStringTags =>
              written = WithSuffixes(Str("string"), x)
         /\ tag \in ClaimedDateTags => written = WithSuffixes(Str("Date"), x)
         /\ tag = Bytea => written = WithSuffixes(Str("Buffer"), x)
         /\ tag = Interval =>
              written = WithSuffixes(Str("PostgresInterval"), x)
         /\ ( /\ tag \notin ClaimedTableTags
              /\ \A h \in 1..Len(enums) : enums[h].key # tag ) =>
              written = WithSuffixes(Str("unknown"), x)

C20_Witness ==
  /\ pc = "done"
  /\ result = Fulfilled
  /\ catalog =
       TagCatalog(<<"t", "i", "m", "e", "s", "t", "a", "m", "p", "t", "z">>,
                  TRUE)
  /\ ColumnWrites = <<WColumn(Id, <<"Date", "[]", " | null">>)>>

\* ------------------------------------------------------------------ C21
\* C21: a json or jsonb column to which no type override applies is written
\* with the base type Record<string, unknown> when its default starts with a
\* quote and an opening brace, unknown[] when it starts with a quote and an
\* opening bracket, and unknown when it has no default or another one.
C21_JsonDefaults ==
  \A k \in 1..Len(ColumnWrites) :
    LET x == columns[k]
        d == x.default
        opens(c) == d # Null /\ Len(d) >= 2 /\ d[1] = "'" /\ d[2] = c
        base == IF opens("{") THEN Str("Record<string, unknown>")
                ELSE IF opens("[") THEN Str("unknown[]")
                ELSE Str("unknown")
    IN (NoTypeOverride(x) /\ LookedUpTag(x) \in {Json, Jsonb}) =>
         ColumnWrites[k].type = WithSuffixes(base, x)

C21_Witness ==
  /\ pc = "done"
  /\ result = Fulfilled
  /\ catalog = JsonCatalog(Jsonb, FALSE)
  /\ ColumnWrites =
       << WColumn(Id, <<"Record<string, unknown>">>),
          WColumn(Tags, <<"unknown[]">>),
          WColumn(Notes, <<"unknown", " | null">>),
          WColumn(Bio, <<"unknown", " | null">>),
          WColumn(Prov, <<"unknown", " | null">>) >>

\* ------------------------------------------------------------------ C22
\* name matches ^[A-Za-z_$][A-Za-z0-9_$]*$
MatchesIdentifier(name) ==
  LET letters ==
        Range(LowerLetters) \cup Range(UpperLetters) \cup {"_", "$"}
  IN
  /\ name # <<>>
  /\ name[1] \in letters
  /\ \A k \in 2..Len(name) : name[k] \in letters \cup Digits

\* name as a double-quoted string literal, quote and backslash escaped
RECURSIVE Escaped(_)
Escaped(name) ==
  IF name = <<>> THEN <<>>
  ELSE (IF Head(name) \in {"\"", "\\"} THEN <<"\\", Head(name)>>
        ELSE <<Head(name)>>) \o Escaped(Tail(name))

\* C22: the key of a column is its resolved name (after name overrides) as
\* it is when that name matches ^[A-Za-z_$][A-Za-z0-9_$]*$, and otherwise
\* that name as a double-quoted, escaped string literal; the keys of
\* overrides and typeOverrides are matched against the database name, not
\* against the quoted key.
C22_QuotedKeys ==
  \A k \in 1..Len(ColumnWrites) :
    LET x == columns[k]
        name == ColumnName(x, options.overrides)
        key == ColumnWrites[k].key
    IN /\ MatchesIdentifier(name) => key = name
       /\ ~MatchesIdentifier(name) =>
            key = <<"\"">> \o Escaped(name) \o <<"\"">>
       /\ ( /\ x.column \in DOMAIN options.overrides
            /\ TableColumnKey(x) \notin DOMAIN options.overrides
            /\ ~HasStar(options.overrides) ) =>
            name = Coalesce(Apply(options.overrides[x.column], x, x.column),
                            x.column)
       /\ ( /\ x.column \in DOMAIN options.typeOverrides
            /\ TableColumnKey(x) \notin DOMAIN options.typeOverrides
            /\ Enabled(options.overrideColumnTypes)
            /\ ~HasStar(options.typeOverrides) ) =>
            ColumnWrites[k].type =
              WithSuffixes(Coalesce(TierValue(x.column, x), MappedType(x)), x)

C22_Witness ==
  /\ pc = "done"
  /\ result = Fulfilled
  /\ catalog = QuotingCatalog
  /\ options.overrides = (DollarX :> Lit(DisplayName))
  /\ options.typeOverrides = (OneX :> Lit(Str("A")))
  /\ ColumnWrites =
       << WColumn(<<"\"", "a", " ", "b", "\"">>, <<"string", " | null">>),
          WColumn(<<"\"", "1", "x", "\"">>, <<"A", " | null">>),
          WColumn(<<"\"", "a", "\\", "\"", "b", "\"">>,
                  <<"string", " | null">>),
          WColumn(<<"\"", "a", "\\", "\\", "b", "\"">>, <<"string">>),
          WColumn(<<"\"", "a", " ", "b", "\"">>, <<"string">>),
          WColumn(UnderY1, <<"string">>) >>

\* ------------------------------------------------------------------ C23
\* the section a write belongs to by its kind: 1 banner, 3 enum
\* declarations, 4 table registry, 5 tables map, 6 record blocks; 0 for the
\* kinds found in several sections (text, blank lines, closing brace)
SectionOf(w) ==
  CASE w.w \in {"banner1", "banner2"} -> 1
    [] w.w \in {"enumOpen", "enumMember"} -> 3
    [] w.w \in {"tablesEnumOpen", "tableMember"} -> 4
    [] w.w \in {"tablesTypeOpen", "tableEntry"} -> 5
    [] w.w \in {"typeOpen", "column"} -> 6
    [] OTHER -> 0

\* a text option that is a string with something in it
NonEmptyText(o) == o.k = "string" /\ o.v # <<>>

\* the number of writes of the kind kind
CountOf(kind) == Cardinality({ p \in 1..Len(output) : output[p].w = kind })

\* C23: the writes come in the order banner, prefix block, enum
\* declarations, table registry, tables map, record blocks, suffix block, and
\* no section is interleaved with another: the two banner lines come first,
\* the sections of the writes never decrease, a closing brace belongs to the
\* section of the write before it, a text is either the prefix right after
\* the banner or the suffix at the very end, each followed by its blank
\* lines; on a successful run the prefix block and the suffix block are there
\* exactly when the option is a non-empty string, and the registry and the
\* tables map are there once each.
C23_WriteOrder ==
  LET n == Len(output) IN
  /\ \A p \in 1..n :
       /\ output[p].w = "banner1" <=> p = 1
       /\ output[p].w = "banner2" <=> p = 2
       /\ output[p].w = "close" =>
            /\ p > 1
            /\ output[p - 1].w \in
                 {"enumMember", "tablesEnumOpen", "tableMember",
                  "tablesTypeOpen", "tableEntry", "column"}
       /\ output[p].w = "text" =>
            \/ /\ p = 3
               /\ NonEmptyText(options.prefix)
               /\ output[p] = WText(options.prefix.v)
               /\ n >= 4 /\ output[4] = WNewlines(2)
            \/ /\ p = n - 1
               /\ pc \in {"finally", "done"}
               /\ NonEmptyText(options.suffix)
               /\ output[p] = WText(options.suffix.v)
               /\ output[n] = WNewlines(1)
       /\ output[p].w = "newlines" => (p > 1 /\ output[p - 1].w = "text")
  /\ \A a, b \in 1..n :
       (a < b /\ SectionOf(output[a]) > 0 /\ SectionOf(output[b]) > 0) =>
         SectionOf(output[a]) <= SectionOf(output[b])
  /\ result = Fulfilled =>
       /\ NonEmptyText(options.prefix) <=> output[3].w = "text"
       /\ NonEmptyText(options.suffix) <=> output[n - 1].w = "text"
       /\ CountOf("text") =
            (IF NonEmptyText(options.prefix) THEN 1 ELSE 0)
            + (IF NonEmptyText(options.suffix) THEN 1 ELSE 0)
       /\ CountOf("tablesEnumOpen") = 1
       /\ CountOf("tablesTypeOpen") = 1

C23_Witness ==
  /\ pc = "done"
  /\ result = Fulfilled
  /\ NonEmptyText(options.prefix)
  /\ NonEmptyText(options.suffix)
  /\ options.schema = AllSchemas
  /\ Len(output) > 8
  /\ SubSeq(output, 1, 5) =
       Banner \o << WText(options.prefix.v), WNewlines(2),
                    WEnumOpen(<<"I", "d", "P">>) >>
  /\ SubSeq(output, Len(output) - 3, Len(output)) =
       << WColumn(Notes, <<"string", " | null">>), WClose,
          WText(options.suffix.v), WNewlines(1) >>
  /\ CountOf("enumMember") = Len(catalog.enums)
  /\ CountOf("tableMember") = 4
  /\ CountOf("tableEntry") = 4
  /\ CountOf("column") = Len(catalog.columns)

\* ------------------------------------------------------------------ C24
\* the second invocation runs on a new stream and a new handle, with the
\* options of the first and on the same catalog
RepeatedUnchanged ==
  /\ invocation = 2
  /\ plan.k = "fresh"
  /\ firstRun.options = options

KeysOfCatalog ==
  { e.key : e \in Range(catalog.enums) }
    \cup { e.key \o Dot \o e.value : e \in Range(catalog.enums) }
    \cup { r.schema : r \in Range(catalog.columns) }
    \cup { r.table : r \in Range(catalog.columns) }
    \cup { r.column : r \in Range(catalog.columns) }
    \cup { r.table \o Dot \o r.column : r \in Range(catalog.columns) }
    \cup { IF r.udt # <<>> /\ r.udt[1] = "_" THEN Tail(r.udt) ELSE r.udt :
             r \in Range(catalog.columns) }
IsInertKey(key) == key # Star /\ key \notin KeysOfCatalog
WithoutInert(m) == [k \in { d \in DOMAIN m : ~IsInertKey(d) } |-> m[k]]
InertKeysOf(o) ==
  { k \in DOMAIN o.overrides \cup DOMAIN o.typeOverrides : IsInertKey(k) }

\* the second run is the first run without its inert entries
SecondDropsInert ==
  /\ invocation = 2
  /\ plan.k = "fresh"
  /\ InertKeysOf(firstRun.options) # {}
  /\ options =
       [firstRun.options EXCEPT
          !.overrides = WithoutInert(firstRun.options.overrides),
          !.typeOverrides = WithoutInert(firstRun.options.typeOverrides)]

\* C25: an entry of overrides or typeOverrides whose key is not "*" and is no
\* enum key, enum member path, schema name, table name, column name,
\* "table.column" pair or stripped storage tag of the catalog is inert: the
\* run with it raises no error of its own (here even when the entry is a
\* function that throws), and ends as the run without it does with the same
\* output
C25_InertKeys ==
  SecondDropsInert =>
    /\ firstRun.result \notin {Rejected("OverrideError"), Rejected("TypeError")}
    /\ (pc = "done" /\ result = firstRun.result) => output = firstRun.output
C25_Witness ==
  /\ SecondDropsInert
  /\ pc = "done"
  /\ result = Fulfilled
  /\ firstRun.result = Fulfilled
  /\ \E k \in InertKeysOf(firstRun.options) :
       /\ k \in DOMAIN firstRun.options.overrides
       /\ isFunction(firstRun.options.overrides[k])
  /\ IdpUpper \in DOMAIN firstRun.options.typeOverrides
  /\ \E n \in 1..Len(output) : output[n].w = "column"

\* ------------------------------------------------------------------ C26
\* typeOverrides holds the single key K, not "*", and all tiers are on
SingleTypeKey(K) ==
  /\ AllTiersOn
  /\ DOMAIN options.typeOverrides = {K}
  /\ K # Star

\* C26 (as claimed): with all tiers enabled and typeOverrides holding the
\* single key K, a storage tag, with a literal value, the base type written
\* for a column is that value if and only if the column's stripped storage
\* tag is K; every other column keeps its mapped base type.
C26_OnlyColumnsOfTheTag ==
  \A K \in DOMAIN options.typeOverrides :
    ( /\ SingleTypeKey(K)
      /\ K \in { LookedUpTag(r) : r \in Range(catalog.columns) }
      /\ ~isFunction(options.typeOverrides[K]) ) =>
      \A k \in 1..Len(ColumnWrites) :
        LET x == columns[k]
            written == ColumnWrites[k].type
            value == options.typeOverrides[K].v
        IN /\ written = WithSuffixes(value, x) <=> LookedUpTag(x) = K
           /\ LookedUpTag(x) # K =>
                written = WithSuffixes(getType(x, enumsMap), x)

\* C26 (amended): with all tiers enabled and typeOverrides holding the single
\* key K, the base type written for a column is what the entry yields (its
\* value, or the result of calling it with the column) when the column's
\* name, its "table.column" pair or its stripped storage tag is K and the
\* entry does not yield null; it is the mapped base type otherwise.
C26_ColumnsOfTheNameOrTag ==
  \A K \in DOMAIN options.typeOverrides :
    SingleTypeKey(K) =>
      \A k \in 1..Len(ColumnWrites) :
        LET x == columns[k]
            written == ColumnWrites[k].type
            hit == K \in {x.table \o Dot \o x.column, x.column, LookedUpTag(x)}
            yield == Apply(options.typeOverrides[K], x, Null)
        IN written =
             WithSuffixes(IF hit /\ yield # Null THEN yield
                          ELSE getType(x, enumsMap), x)

C26_Witness ==
  /\ pc = "done"
  /\ result = Fulfilled
  /\ catalog = ClashCatalog
  /\ options.typeOverrides = (UsrId :> Lit(Str("Numeric")))
  /\ Len(ColumnWrites) = 7
  /\ ColumnWrites[1] = WColumn(Id, Str("Numeric"))
  /\ ColumnWrites[2] = WColumn(Text, Str("number"))
  /\ ColumnWrites[4] = WColumn(Notes, <<"string", " | null">>)
  /\ ColumnWrites[6] = WColumn(Bio, <<"Numeric", " | null">>)

\* ------------------------------------------------------------------ C27
\* the enum-name map has an entry for every enum key of the database, the
\* name of that enum's declaration
EnumMapComplete ==
  /\ DOMAIN enumsMap = { e.key : e \in Range(catalog.enums) }
  /\ \A key \in DOMAIN enumsMap : enumsMap[key] = DeclaredEnumName(key)

\* C27: the two catalog queries are strictly sequential: the enum query is
\* the first query, the column query is the second and is issued only once
\* the enum query has returned its rows; the enum-name map is complete from
\* the moment the column query is issued, so that every column type is
\* computed against the complete map.
C27_QueriesInSequence ==
  /\ [](queries \in {<<>>, <<"enums">>, <<"enums", "columns">>})
  /\ []((Len(queries) = 2 \/ ColumnWrites # <<>>) => EnumMapComplete)
  /\ [][(queries' # queries /\ invocation' = invocation /\ queries # <<>>) =>
          /\ queries = <<"enums">>
          /\ pc # "enumQuery"
          /\ enums = catalog.enums
          /\ ColumnWrites = <<>>]_vars

C27_Witness ==
  /\ pc = "done"
  /\ result = Fulfilled
  /\ queries = <<"enums", "columns">>
  /\ Idp \in DOMAIN options.overrides
  /\ EnumMapComplete
  /\ \E k \in 1..Len(ColumnWrites) :
       /\ LookedUpTag(columns[k]) = Idp
       /\ ColumnWrites[k].type = WithSuffixes(enumsMap[Idp], columns[k])

\* ------------------------------------------------------------------ C28
BlockOpeners == {"enumOpen", "tablesEnumOpen", "tablesTypeOpen", "typeOpen"}
BlockMembers == {"enumMember", "tableMember", "tableEntry", "column"}

\* the number of blocks open after the first n writes
OpenBlocks(n) ==
  Cardinality({ k \in 1..n : output[k].w \in BlockOpeners })
    - Cardinality({ k \in 1..n : output[k].w = "close" })

\* the rows of one enum key, of one table, are not all next to each other
ScatteredEnums ==
  \E a, b, c \in 1..Len(enums) :
    a < b /\ b < c /\ enums[a].key = enums[c].key /\ enums[b].key # enums[a].key
ScatteredTables ==
  \E a, b, c \in 1..Len(columns) :
    /\ a < b /\ b < c
    /\ columns[a].table = columns[c].table
    /\ columns[b].table # columns[a].table

\* C28: for any enum list and column list, with the rows of a key next to
\* each other or not, the declarations are well nested: a block is opened
\* only when none is open, a member line is written only inside an open
\* block, a block is closed only when one is open, the texts of the caller
\* are written with no block open, and on a successful run no block is left
\* open; rows of one key that are apart give several complete blocks.
C28_WellNested ==
  /\ \A n \in 1..Len(output) :
       /\ output[n].w \in BlockOpeners => OpenBlocks(n - 1) = 0
       /\ output[n].w \in BlockMembers => OpenBlocks(n - 1) = 1
       /\ output[n].w = "close" => OpenBlocks(n - 1) = 1
       /\ output[n].w = "text" => OpenBlocks(n - 1) = 0
  /\ (pc = "done" /\ result = Fulfilled) => OpenBlocks(Len(output)) = 0

C28_Witness ==
  /\ pc = "done"
  /\ result = Fulfilled
  /\ catalog = ScrambledCatalog
  /\ ScatteredEnums
  /\ ScatteredTables
  /\ Cardinality({ n \in 1..Len(output) : output[n].w = "enumOpen" }) = 3
  /\ Cardinality({ n \in 1..Len(output) : output[n].w = "typeOpen" }) = 4
  /\ Cardinality({ n \in 1..Len(output) : output[n].w = "close" }) = 9
  /\ output[Len(output) - 1].w = "text"

\* ------------------------------------------------------------------ C29
\* the second invocation is running on the handle and the stream that the
\* first invocation was given
SecondOnSameResources ==
  invocation = 2 /\ plan.k = "same"

\* C29 (as claimed): updateTypes destroys the handle and ends the stream
\* when it finishes, so once an invocation has returned, every catalog query
\* that a second invocation on the same handle and stream issues finds the
\* handle destroyed, and every write it makes finds the stream ended.
C29_SecondCallFindsResourcesReleased ==
  [][(SecondOnSameResources /\ invocation' = invocation) =>
       /\ queries' # queries => handleDestroyed
       /\ output' # output => streamEnded]_vars

====
